---- MODULE Spec2Model ----
(***************************************************************************)
(* State-machine model of the TeritorioCluster custom layer                *)
(* (src/src/teritorio-cluster.ts, lines 52-537): the update cycle          *)
(* renderCustom with its generation counter abortExec, the cluster-leaves  *)
(* cache, the on-screen marker map, and the selected feature with its pin  *)
(* marker.                                                                 *)
(*                                                                         *)
(* The host map is modelled by what the layer can observe of it: the       *)
(* ordered list of marker elements attached to the map container (dom),    *)
(* the features and zoom a query returns (a World), and the answer or      *)
(* rejection of getClusterLeaves.                                          *)
(***************************************************************************)
EXTENDS Integers, Sequences, FiniteSets, TLC

(***************************************************************************)
(* Bounds                                                                  *)
(***************************************************************************)
\* Largest value the generation counter abortExec may reach.
MaxExec == 2

\* Largest number of move/moveend handler pairs the scheduler's data
\* callback registers.
MaxHandlers == 2

\* Largest number of animation frames requested and updates in flight at
\* which a trigger is still taken.
MaxRequests == 3

(***************************************************************************)
(* Raw identifiers: a JavaScript value that is undefined, a number or a    *)
(* string.  toString turns a number into its decimal digits.               *)
(***************************************************************************)
Undef == [t |-> "undefined", n |-> 0, s |-> ""]
Num(n) == [t |-> "number", n |-> n, s |-> ""]
Str(s) == [t |-> "string", n |-> 0, s |-> s]

DigitChar == <<"0", "1", "2", "3", "4", "5", "6", "7", "8", "9">>

RECURSIVE Digits(_)
Digits(n) ==
  IF n < 10 THEN DigitChar[n + 1] ELSE Digits(n \div 10) \o DigitChar[(n % 10) + 1]

\* Number.prototype.toString / String.prototype.toString
toString(v) == IF v.t = "number" THEN Digits(v.n) ELSE v.s

\* JavaScript truthiness of a raw identifier (!feature.id is its negation)
Truthy(v) ==
  \/ v.t = "number" /\ v.n # 0
  \/ v.t = "string" /\ v.s # ""

\* properties.metadata: absent, a string that JSON.parse rejects, or a
\* value (given directly or as a JSON string) whose id is mid.
NoMetadata == [t |-> "undefined", mid |-> Undef]
BadJson == [t |-> "badjson", mid |-> Undef]
JsonMetadata(mid) == [t |-> "json", mid |-> mid]
ObjMetadata(mid) == [t |-> "object", mid |-> mid]

(***************************************************************************)
(* Features                                                                *)
(***************************************************************************)
\* What getFeatureId yields when it throws.
Thrown == "<throws>"
\* A null selectedFeatureId / selectedClusterId.
NullId == "<null>"

NoFeature ==
  [cluster |-> FALSE, id |-> Undef, pid |-> Undef, metadata |-> NoMetadata,
   geom |-> "none", coord |-> 0, point_count |-> 0]

PointFeature(pid, coord) ==
  [cluster |-> FALSE, id |-> Undef, pid |-> pid, metadata |-> NoMetadata,
   geom |-> "Point", coord |-> coord, point_count |-> 0]

ClusterFeature(id, coord, count) ==
  [cluster |-> TRUE, id |-> id, pid |-> Undef, metadata |-> NoMetadata,
   geom |-> "Point", coord |-> coord, point_count |-> count]

\* TeritorioCluster.getFeatureId
getFeatureId(feature) ==
  IF feature.cluster
  THEN IF ~Truthy(feature.id) THEN Thrown ELSE toString(feature.id)
  ELSE LET metadata == IF feature.metadata.t = "badjson" THEN NoMetadata
                       ELSE feature.metadata
           chosen == IF metadata.mid.t # "undefined" THEN metadata.mid
                     ELSE feature.pid
       IN IF chosen.t = "undefined" THEN Thrown ELSE toString(chosen)

\* utils/get-feature-id.ts: the try block throws (a falsy id where one is
\* needed, or a metadata string that JSON.parse rejects)
utilsThrows(feature) ==
  IF feature.cluster THEN ~Truthy(feature.id)
  ELSE IF feature.metadata.t \in {"undefined", "object"} THEN ~Truthy(feature.pid)
  ELSE IF feature.metadata.t = "badjson" THEN TRUE
  ELSE ~Truthy(feature.metadata.mid)

\* utils/get-feature-id.ts getFeatureId: the catch block returns
\* feature.id?.toString() || 'unknown'
utilsGetFeatureId(feature) ==
  IF utilsThrows(feature)
  THEN IF feature.id.t # "undefined" /\ toString(feature.id) # ""
       THEN toString(feature.id) ELSE "unknown"
  ELSE IF feature.cluster THEN toString(feature.id)
  ELSE IF feature.metadata.t \in {"undefined", "object"} THEN toString(feature.pid)
  ELSE toString(feature.metadata.mid)

\* TeritorioCluster.isClusterFeature
isClusterFeature(feature) == feature.cluster

(***************************************************************************)
(* Insertion-ordered maps (JavaScript Map) as sequences of entries         *)
(***************************************************************************)
MapHas(m, key) == \E i \in 1..Len(m) : m[i].key = key

MapGet(m, key) == m[CHOOSE i \in 1..Len(m) : m[i].key = key].value

\* Map.prototype.set: an existing key keeps its position.
MapSet(m, key, value) ==
  IF MapHas(m, key)
  THEN [i \in 1..Len(m) |-> IF m[i].key = key THEN [key |-> key, value |-> value] ELSE m[i]]
  ELSE Append(m, [key |-> key, value |-> value])

MapKeys(m) == {m[i].key : i \in 1..Len(m)}

(***************************************************************************)
(* Markers: the objects maplibre.Marker wraps around an element.  A marker *)
(* built by renderCustom is identified by the generation that built it and *)
(* by its element id; kind is the representation read back from the        *)
(* element's class list; items are the features it was rendered from.      *)
(***************************************************************************)
NoMarker ==
  [kind |-> "none", id |-> "", lngLat |-> 0, gen |-> 0, items |-> <<>>, offset |-> ""]

\* new maplibre.Point(0, 0)
ZeroOffset == "0,0"

Marker(kind, id, lngLat, gen, items) ==
  [kind |-> kind, id |-> id, lngLat |-> lngLat, gen |-> gen, items |-> items,
   offset |-> ZeroOffset]

\* helpers.pinMarkerRenderDefault
pinMarkerRender(coords, offset) ==
  [kind |-> "pin", id |-> "", lngLat |-> coords, gen |-> 0, items |-> <<>>,
   offset |-> offset]

\* Marker.remove(): the element leaves the map container (no effect when it
\* is not attached).  The most recently attached of equal elements goes.
Detach(d, m) ==
  LET idx == {i \in 1..Len(d) : d[i] = m}
  IN IF idx = {} THEN d
     ELSE LET k == CHOOSE i \in idx : \A j \in idx : j <= i
          IN SubSeq(d, 1, k - 1) \o SubSeq(d, k + 1, Len(d))

\* ids of the child elements an unfolded cluster element holds
ChildIds(m) == {getFeatureId(m.items[i]) : i \in 1..Len(m.items)}

Without(f, key) == [x \in (DOMAIN f) \ {key} |-> f[x]]

With(f, key, value) == [x \in (DOMAIN f) \cup {key} |-> IF x = key THEN value ELSE f[x]]

PinsIn(d) == {i \in 1..Len(d) : d[i].kind = "pin"}

(***************************************************************************)
(* The environment: the features of the source and what the map shows      *)
(***************************************************************************)
FA == PointFeature(Str("a"), 1)
FB == PointFeature(Str("b"), 2)
FC == PointFeature(Str("c"), 3)
FD == PointFeature(Str("d"), 4)
\* a Point that the source does not hold
FX == PointFeature(Str("x"), 9)
\* a Polygon that the source does not hold
FP == [PointFeature(Str("p"), 8) EXCEPT !.geom = "Polygon"]

K1(count) == ClusterFeature(Num(1), 5, count)
K2(count) == ClusterFeature(Num(2), 6, count)

\* A World is one answer of the map: getZoom(), querySourceFeatures() and,
\* per cluster id, the leaves getClusterLeaves resolves with.
World(zoom, features, leaves) == [zoom |-> zoom, features |-> features, leaves |-> leaves]

Worlds ==
  { World(0, <<K1(3)>>, <<[key |-> "1", value |-> <<FA, FB, FC>>]>>),
    World(1, <<K1(2), K2(2)>>, <<[key |-> "1", value |-> <<FA, FB>>],
                                 [key |-> "2", value |-> <<FC, FD>>]>>),
    World(1, <<FD, K1(3)>>, <<[key |-> "1", value |-> <<FA, FB, FC>>]>>),
    World(2, <<K1(3), FD>>, <<[key |-> "1", value |-> <<FA, FB, FC>>]>>),
    World(2, <<FA, FB>>, <<>>) }

\* the leaf lists getClusterLeaves may resolve with when asked for the
\* leaves of a cluster feature that the worlds W show
LeavesIn(W, feature) ==
  {MapGet(w.leaves, getFeatureId(feature)) :
     w \in {v \in W : \E i \in 1..Len(v.features) : v.features[i] = feature}}

\* features handed to setSelectedFeature by the application
SelectInputs == {FA, FC, FX, FP}

(***************************************************************************)
(* Options.  A number option that is undefined is Absent, a callback that  *)
(* is undefined is NoCallback, an initialFeature that is undefined is      *)
(* NoFeature and a fitBoundsOptions that is undefined is NoObject; a        *)
(* fitBoundsOptions object holds the keys padding and duration, each a     *)
(* number or Absent.                                                       *)
(***************************************************************************)
Absent == -1

NoCallback == "undefined"

NoObject == [defined |-> FALSE, padding |-> Absent, duration |-> Absent]

FitBoundsOptions(padding, duration) ==
  [defined |-> TRUE, padding |-> padding, duration |-> duration]

defaultOptions ==
  [clusterMaxZoom |-> 17,
   clusterMinZoom |-> 0,
   clusterRender |-> "clusterRenderDefault",
   fitBoundsOptions |-> FitBoundsOptions(20, Absent),
   initialFeature |-> NoFeature,
   markerRender |-> "markerRenderDefault",
   markerSize |-> 24,
   unfoldedClusterRender |-> "unfoldedClusterRenderSmart",
   unfoldedClusterMaxLeaves |-> 7,
   pinMarkerRender |-> "pinMarkerRenderDefault"]

\* "options || {}" of a constructor called without options
NoOptions ==
  [clusterMaxZoom |-> Absent,
   clusterMinZoom |-> Absent,
   clusterRender |-> NoCallback,
   fitBoundsOptions |-> NoObject,
   initialFeature |-> NoFeature,
   markerRender |-> NoCallback,
   markerSize |-> Absent,
   unfoldedClusterRender |-> NoCallback,
   unfoldedClusterMaxLeaves |-> Absent,
   pinMarkerRender |-> NoCallback]

\* a merge that assigns the key even when its source value is undefined
mergeValue_Assign(target, value, undefined) == value

\* deepMerge on a key whose source value is no object: it is assigned
\* unless it is undefined
mergeValue(target, value, undefined) == IF value # undefined THEN value ELSE target

\* deepMerge on a key whose source value is an object: the recursive call,
\* over the target's object ("target[key] || {}"), key by key
mergeObject(target, object) ==
  IF ~object.defined THEN target
  ELSE [defined |-> TRUE,
        padding |-> mergeValue(target.padding, object.padding, Absent),
        duration |-> mergeValue(target.duration, object.duration, Absent)]

\* deepMerge, on a feature: the target is "undefined || {}", and the copy
\* holds every key of the feature
mergeFeature(target, feature) == IF feature = NoFeature THEN target ELSE feature

deepMerge(target, options) ==
  [clusterMaxZoom |-> mergeValue(target.clusterMaxZoom, options.clusterMaxZoom, Absent),
   clusterMinZoom |-> mergeValue(target.clusterMinZoom, options.clusterMinZoom, Absent),
   clusterRender |-> mergeValue(target.clusterRender, options.clusterRender, NoCallback),
   fitBoundsOptions |-> mergeObject(target.fitBoundsOptions, options.fitBoundsOptions),
   initialFeature |-> mergeFeature(target.initialFeature, options.initialFeature),
   markerRender |-> mergeValue(target.markerRender, options.markerRender, NoCallback),
   markerSize |-> mergeValue(target.markerSize, options.markerSize, Absent),
   unfoldedClusterRender |->
     mergeValue(target.unfoldedClusterRender, options.unfoldedClusterRender, NoCallback),
   unfoldedClusterMaxLeaves |->
     mergeValue(target.unfoldedClusterMaxLeaves, options.unfoldedClusterMaxLeaves, Absent),
   pinMarkerRender |-> mergeValue(target.pinMarkerRender, options.pinMarkerRender, NoCallback)]

\* this.opts as the constructor builds it from the options it is handed
constructorOpts(options) == deepMerge(defaultOptions, options)

\* options handed to the constructor
OptionChoices ==
  { [NoOptions EXCEPT !.clusterMinZoom = 1, !.clusterMaxZoom = 2,
                      !.unfoldedClusterMaxLeaves = 2, !.initialFeature = f] :
      f \in {NoFeature, FB} }

(***************************************************************************)
(* State                                                                   *)
(***************************************************************************)
VARIABLES
  map,                \* this.map is set (onAdd was called)
  source,             \* this.source is set
  listening,          \* the sourcedata / moveend handlers are registered
  options,            \* the options argument the constructor is called with
  opts,               \* this.opts
  clusterLeaves,      \* this.clusterLeaves
  featuresMap,        \* this.featuresMap
  markersOnScreen,    \* this.markersOnScreen
  pinMarker,          \* this.pinMarker
  selectedClusterId,  \* this.selectedClusterId
  selectedFeatureId,  \* this.selectedFeatureId
  abortExec,          \* this.abortExec
  cycles,             \* the calls of renderCustom suspended in an await
  dom,                \* the marker elements attached to the map, in order
  lastOp,             \* history: the operation that led to this state
  reported,           \* history: the calls of console.error that operation made
  dispatched,         \* history: the 'feature-click' events that operation dispatched
  fitBoundsCalls,     \* history: the options of each map.fitBounds call that operation made
  removed,            \* history: ids of the markers on which that operation called remove()
  ticking,            \* animation-frame scheduler: this.ticking
  frameRequests,      \* animation-frame scheduler: callbacks requestAnimationFrame holds
  updates,            \* animation-frame scheduler: calls of updateMarkers in an await
  handlers,           \* animation-frame scheduler: move/moveend handlers registered
  lastCommit          \* history: what the last committed cycle worked from

vars ==
  <<map, source, listening, opts, clusterLeaves, featuresMap, markersOnScreen,
    pinMarker, selectedClusterId, selectedFeatureId, abortExec, cycles, dom,
    lastOp, reported, dispatched, lastCommit, ticking, frameRequests, updates, handlers,
    options, fitBoundsCalls, removed>>

\* the state of the animation-frame scheduler
tickVars == <<ticking, frameRequests, updates, handlers>>

\* The fields of the layer that the synchronous code of a cycle and the
\* selection methods read and write, as one record, with what the code did:
\* threw (an exception left the method), early (renderCustom returned
\* before its last statement), errors (calls of console.error), created and
\* removed (ids of the markers built and taken off the map), events (the
\* selectedFeature of each 'feature-click' event dispatched).  nm is the
\* local newMarkers of renderCustom.
Layer ==
  [mos |-> markersOnScreen, dom |-> dom, pin |-> pinMarker,
   selF |-> selectedFeatureId, selC |-> selectedClusterId,
   init |-> opts.initialFeature, fm |-> featuresMap, cl |-> clusterLeaves,
   nm |-> [x \in {} |-> NoMarker],
   threw |-> FALSE, early |-> FALSE, errors |-> 0, created |-> {}, removed |-> {},
   events |-> <<>>]

(***************************************************************************)
(* Pin marker and selection                                                *)
(***************************************************************************)
\* resetPinMarker
resetPinMarker(s) ==
  IF s.pin = NoMarker THEN s
  ELSE [s EXCEPT !.dom = Detach(@, s.pin), !.pin = NoMarker]

\* renderPinMarker: addTo(this.map!) throws when the layer has no map
renderPinMarker(s, coords, offset) ==
  LET pin == pinMarkerRender(coords, offset)
  IN IF map THEN [s EXCEPT !.pin = pin, !.dom = Append(@, pin)]
     ELSE [s EXCEPT !.pin = pin, !.threw = TRUE]

\* calculatePinMarkerOffset: the vector from the cluster element's centre to
\* the centre of the child element, named by the child it points at
calculatePinMarkerOffset(cluster, childId) == "to:" \o childId

\* renderPinMarkerInCluster
renderPinMarkerInCluster(s, cluster, coords) ==
  IF cluster.kind # "unfolded" THEN renderPinMarker(s, coords, ZeroOffset)
  ELSE IF s.selF \notin ChildIds(cluster) THEN [s EXCEPT !.threw = TRUE]
  ELSE renderPinMarker(s, coords, calculatePinMarkerOffset(cluster, s.selF))

\* isFeatureInCluster
isFeatureInCluster(cl, clusterId, featureId) ==
  /\ MapHas(cl, clusterId)
  /\ \E i \in 1..Len(MapGet(cl, clusterId)) :
       getFeatureId(MapGet(cl, clusterId)[i]) = featureId

\* findClusterizedFeature: the first cached cluster that holds the id
findClusterizedFeature(cl, id) ==
  LET hits == {i \in 1..Len(cl) :
                 \E j \in 1..Len(cl[i].value) :
                    getFeatureId(cl[i].value[j]) = id}
  IN IF hits = {} THEN [found |-> FALSE, clusterId |-> NullId, feature |-> NoFeature]
     ELSE LET k == CHOOSE i \in hits : \A j \in hits : i <= j
              leaves == cl[k].value
              m == CHOOSE i \in 1..Len(leaves) :
                     /\ getFeatureId(leaves[i]) = id
                     /\ \A j \in 1..(i - 1) : getFeatureId(leaves[j]) # id
          IN [found |-> TRUE, clusterId |-> cl[k].key, feature |-> leaves[m]]

\* resetSelectedFeature without its call of resetPinMarker
resetSelectedFeature_KeepsPin(s) == [s EXCEPT !.selC = NullId, !.selF = NullId]

\* resetSelectedFeature
resetSelectedFeature(s) ==
  resetPinMarker([s EXCEPT !.selC = NullId, !.selF = NullId])

\* setSelectedFeature, the branch "feature found": s is the layer after
\* resetSelectedFeature and the assignment of selectedFeatureId
pinOnSelected(s, id, inCluster) ==
  IF MapHas(s.fm, id)
  THEN IF MapGet(s.fm, id).geom = "Point"
       THEN renderPinMarker(s, MapGet(s.fm, id).coord, ZeroOffset)
       ELSE s
  ELSE IF inCluster.feature.geom # "Point" THEN s
  ELSE IF inCluster.clusterId \notin DOMAIN s.mos
  THEN [s EXCEPT !.errors = @ + 1]
  ELSE renderPinMarkerInCluster([s EXCEPT !.selC = inCluster.clusterId],
                                s.mos[inCluster.clusterId],
                                s.mos[inCluster.clusterId].lngLat)

\* setSelectedFeature with resetSelectedFeature called before the geometry
\* check of a feature that is not found
selectFeature_ResetsFirst(s, feature, id, inCluster) ==
  IF id = Thrown THEN [s EXCEPT !.threw = TRUE]
  ELSE IF ~MapHas(s.fm, id) /\ ~inCluster.found
  THEN IF feature.geom # "Point" THEN [resetSelectedFeature(s) EXCEPT !.errors = @ + 1]
       ELSE renderPinMarker([resetSelectedFeature(s) EXCEPT !.selF = id],
                            feature.coord, ZeroOffset)
  ELSE pinOnSelected([resetSelectedFeature(s) EXCEPT !.selF = id], id, inCluster)

\* setSelectedFeature with the results of getFeatureId(feature) and of
\* findFeature's search through the cluster leaves
selectFeature(s, feature, id, inCluster) ==
  IF id = Thrown THEN [s EXCEPT !.threw = TRUE]
  ELSE IF ~MapHas(s.fm, id) /\ ~inCluster.found
  THEN IF feature.geom # "Point" THEN [s EXCEPT !.errors = @ + 1]
       ELSE renderPinMarker([resetSelectedFeature(s) EXCEPT !.selF = id],
                            feature.coord, ZeroOffset)
  ELSE pinOnSelected([resetSelectedFeature(s) EXCEPT !.selF = id], id, inCluster)

\* a setSelectedFeature that takes the marker of the feature out of
\* markersOnScreen
setSelectedFeature_DropsMarker(s, feature) ==
  [selectFeature(s, feature, getFeatureId(feature),
                 findClusterizedFeature(s.cl, getFeatureId(feature)))
     EXCEPT !.mos = Without(@, getFeatureId(feature))]

\* setSelectedFeature
setSelectedFeature(s, feature) ==
  selectFeature(s, feature, getFeatureId(feature),
                findClusterizedFeature(s.cl, getFeatureId(feature)))

\* this.dispatchEvent(new CustomEvent('feature-click', ...)), not reached
\* when the statement before it threw
dispatchEvent(s, feature) ==
  IF s.threw THEN s ELSE [s EXCEPT !.events = Append(@, feature)]

\* featureClickHandler without the test for the feature already selected
featureClickHandler_AlwaysSelects(s, feature) ==
  dispatchEvent(setSelectedFeature(s, feature), feature)

\* featureClickHandler (the dispatch of 'feature-click' follows a
\* setSelectedFeature that did not throw)
featureClickHandler(s, feature) ==
  IF s.selF = getFeatureId(feature) THEN s
  ELSE dispatchEvent(setSelectedFeature(s, feature), feature)

(***************************************************************************)
(* renderCustom: reconciliation (the code after the fetch loop)            *)
(***************************************************************************)
\* the condition under which renderCustom drops the marker it found for a
\* cluster feature
\* a condition that looks at the maximum zoom only
needsTeardown_MaxOnly(marker, maxZoomLimit, minZoomLimit, has) ==
  LET unfolded == marker.kind = "unfolded"
  IN \/ (maxZoomLimit /\ ~unfolded)
     \/ (~maxZoomLimit /\ unfolded /\ has)

needsTeardown(marker, maxZoomLimit, minZoomLimit, has) ==
  LET unfolded == marker.kind = "unfolded"
  IN \/ (maxZoomLimit /\ ~unfolded)
     \/ (~maxZoomLimit /\ unfolded /\ has)
     \/ (minZoomLimit /\ ~unfolded)
     \/ (~minZoomLimit /\ unfolded /\ has)

\* the representation with "<" in place of "<="
representation_Strict(leafCount, unfoldedClusterMaxLeaves, maxZoomLimit, minZoomLimit) ==
  IF minZoomLimit /\ ((leafCount < unfoldedClusterMaxLeaves) \/ maxZoomLimit)
  THEN "unfolded" ELSE "cluster"

\* the representation renderCustom builds for a cluster without a marker
representation(leafCount, unfoldedClusterMaxLeaves, maxZoomLimit, minZoomLimit) ==
  IF minZoomLimit /\ ((leafCount <= unfoldedClusterMaxLeaves) \/ maxZoomLimit)
  THEN "unfolded" ELSE "cluster"

\* marker.addTo(this.map!)
addTo(s, marker) ==
  [s EXCEPT !.dom = Append(@, marker), !.created = @ \cup {marker.id}]

\* the selected feature is part of a new cluster marker
pinOnNewCluster(s, id, element, coords) ==
  IF s.pin # NoMarker /\ s.selF # NullId /\ isFeatureInCluster(s.cl, id, s.selF)
  THEN renderPinMarkerInCluster(resetPinMarker([s EXCEPT !.selC = id]), element, coords)
  ELSE s

\* an initialFeature that stays configured after its pin was rendered
consumeInitial_Keeps(s) == s

\* "this.opts.initialFeature = undefined" after the pin was rendered
consumeInitial(s) == IF s.threw THEN s ELSE [s EXCEPT !.init = NoFeature]

\* initialFeature is part of a new cluster marker (not reached when the
\* statements before it threw)
initialOnNewCluster(s, id, element, coords) ==
  IF s.threw THEN s
  ELSE IF s.init # NoFeature /\ isFeatureInCluster(s.cl, id, getFeatureId(s.init))
  THEN consumeInitial(renderPinMarkerInCluster(
         [s EXCEPT !.selC = id, !.selF = getFeatureId(s.init)], element, coords))
  ELSE s

\* the selected feature is a new plain marker
pinOnNewMarker(s, id, coords) ==
  IF s.pin # NoMarker /\ s.selF = id
  THEN renderPinMarker(resetPinMarker(s), coords, ZeroOffset)
  ELSE s

\* initialFeature is a new plain marker (not reached when the statements
\* before it threw)
initialOnNewMarker(s, id, coords) ==
  IF s.threw THEN s
  ELSE IF s.init # NoFeature /\ getFeatureId(s.init) = id
  THEN consumeInitial(renderPinMarker([s EXCEPT !.selF = id], coords, ZeroOffset))
  ELSE s

\* this.markersOnScreen.get(id)
markerOf(mos, id) == IF id \in DOMAIN mos THEN mos[id] ELSE NoMarker

\* marker.remove() and this.markersOnScreen.delete(id)
teardown(s, id, found) ==
  [s EXCEPT !.dom = Detach(@, found), !.mos = Without(@, id), !.removed = @ \cup {id}]

\* renderUnfoldedCluster / renderCluster and new maplibre.Marker
clusterMarker(kind, feature, id, leaves, exec) ==
  Marker(kind, id, feature.coord, exec, IF kind = "unfolded" THEN leaves ELSE <<feature>>)

\* newMarkers.set(id, marker), reached unless an exception left the callback
setNewMarker(s, id, marker) ==
  IF s.threw THEN s ELSE [s EXCEPT !.nm = With(@, id, marker)]

\* a cluster feature without a marker: attach the new one, then the two
\* pin branches
newClusterMarker(s, id, coords, marker) ==
  setNewMarker(
    initialOnNewCluster(pinOnNewCluster(addTo(s, marker), id, marker, coords),
                        id, marker, coords),
    id, marker)

\* a plain feature without a marker
newPlainMarker(s, id, coords, marker) ==
  setNewMarker(
    initialOnNewMarker(pinOnNewMarker(addTo(s, marker), id, coords), id, coords),
    id, marker)

\* the cluster branch of the callback
reconcileCluster(s, feature, id, leaves, found, maxZoomLimit, minZoomLimit, exec) ==
  IF found # NoMarker
     /\ ~needsTeardown(found, maxZoomLimit, minZoomLimit, id \in DOMAIN s.mos)
  THEN [s EXCEPT !.nm = With(@, id, found)]
  ELSE newClusterMarker(
         IF found # NoMarker THEN teardown(s, id, found) ELSE s,
         id, feature.coord,
         clusterMarker(representation(Len(leaves), opts.unfoldedClusterMaxLeaves,
                                      maxZoomLimit, minZoomLimit),
                       feature, id, leaves, exec))

\* a callback that throws on a feature that is not a Point
reconcileById_Throws(s, feature, id, maxZoomLimit, minZoomLimit, exec) ==
  IF feature.geom # "Point" THEN [s EXCEPT !.errors = @ + 1, !.threw = TRUE]
  ELSE IF feature.cluster
  THEN IF ~MapHas(s.cl, id) THEN [s EXCEPT !.errors = @ + 1]
       ELSE reconcileCluster(s, feature, id, MapGet(s.cl, id), markerOf(s.mos, id),
                             maxZoomLimit, minZoomLimit, exec)
  ELSE IF markerOf(s.mos, id) # NoMarker
  THEN [s EXCEPT !.nm = With(@, id, markerOf(s.mos, id))]
  ELSE newPlainMarker(s, id, feature.coord,
                      Marker("marker", id, feature.coord, exec, <<feature>>))

\* the callback with its locals id, maxZoomLimit and minZoomLimit
reconcileById(s, feature, id, maxZoomLimit, minZoomLimit, exec) ==
  IF feature.geom # "Point" THEN [s EXCEPT !.errors = @ + 1]
  ELSE IF feature.cluster
  THEN IF ~MapHas(s.cl, id) THEN [s EXCEPT !.errors = @ + 1]
       ELSE reconcileCluster(s, feature, id, MapGet(s.cl, id), markerOf(s.mos, id),
                             maxZoomLimit, minZoomLimit, exec)
  ELSE IF markerOf(s.mos, id) # NoMarker
  THEN [s EXCEPT !.nm = With(@, id, markerOf(s.mos, id))]
  ELSE newPlainMarker(s, id, feature.coord,
                      Marker("marker", id, feature.coord, exec, <<feature>>))

\* one round of featuresMap.forEach; newMarkers travels in s.nm
reconcileFeature(s, feature, zoom, exec) ==
  reconcileById(s, feature, getFeatureId(feature),
                zoom >= opts.clusterMaxZoom, zoom >= opts.clusterMinZoom, exec)

RECURSIVE reconcileFrom(_, _, _, _)
reconcileFrom(s, k, zoom, exec) ==
  IF k > Len(s.fm) \/ s.threw THEN s
  ELSE reconcileFrom(reconcileFeature(s, s.fm[k].value, zoom, exec), k + 1, zoom, exec)

\* a cycle that leaves the markers of absent ids attached
removeOutdated_KeepsAll(s) == s

\* "remove those that are no longer visible"
removeOutdated(s) ==
  LET gone == {id \in DOMAIN s.mos : id \notin DOMAIN s.nm}
  IN [s EXCEPT !.dom = SelectSeq(@, LAMBDA e : \A id \in gone : s.mos[id] # e),
               !.removed = @ \cup gone]

\* the pin of an initialFeature that no marker of this cycle shows
initialFallback(s) ==
  IF s.init # NoFeature /\ s.selF = NullId /\ s.pin = NoMarker
  THEN IF s.init.geom # "Point" THEN [s EXCEPT !.errors = @ + 1, !.early = TRUE]
       ELSE consumeInitial(renderPinMarker([s EXCEPT !.selF = getFeatureId(s.init)],
                                           s.init.coord, ZeroOffset))
  ELSE s

\* renderCustom from "this.featuresMap.forEach" to its end
\* the statements between the forEach and the last one
afterForEach(s) == IF s.threw THEN s ELSE initialFallback(removeOutdated(s))

\* "this.markersOnScreen = newMarkers", reached unless renderCustom threw or
\* returned before
assignMarkers(s) == IF s.threw \/ s.early THEN s ELSE [s EXCEPT !.mos = s.nm]

reconcile(s, zoom, exec) ==
  assignMarkers(afterForEach(reconcileFrom(s, 1, zoom, exec)))

(***************************************************************************)
(* renderCustom: the fetch loop and its suspension                         *)
(***************************************************************************)
Gens == 1..MaxExec

\* a call of renderCustom that is suspended at "await this.loadClusterLeaves"
\* (pc = "fetch"): its locals zoom (read by getZoom), features, and the
\* position i it has reached in the loop
NoCycle == [zoom |-> 0, features |-> <<>>, i |-> 0, pc |-> "none"]

\* the comparison with "<" in place of "!=="
aborted_Less(counter, currentExec) == counter < currentExec

\* this.abortExec !== currentExec
aborted(counter, currentExec) == counter # currentExec

\* shouldRender
shouldRender(isSourceLoaded, counter, currentExec) ==
  map /\ isSourceLoaded /\ source /\ ~aborted(counter, currentExec)

\* the iterations of "for (const feature of features)" from position i up to
\* the next await, the end of the list, or a return
RECURSIVE fetchLoop(_, _, _, _, _)
fetchLoop(fm, features, i, counter, currentExec) ==
  IF i > Len(features) THEN [fm |-> fm, i |-> i, pc |-> "tail"]
  ELSE IF aborted(counter, currentExec) THEN [fm |-> fm, i |-> i, pc |-> "aborted"]
  ELSE LET id == getFeatureId(features[i])
       IN IF id = Thrown THEN [fm |-> fm, i |-> i, pc |-> "threw"]
          ELSE IF isClusterFeature(features[i])
          THEN [fm |-> MapSet(fm, id, features[i]), i |-> i, pc |-> "fetch"]
          ELSE fetchLoop(MapSet(fm, id, features[i]), features, i + 1, counter, currentExec)

\* renderCustom from position i of the loop on: the layer afterwards, the
\* cycle if it is suspended again, and how it went
\* how a call that ran to its end went
ended(s) ==
  [s |-> s, cyc |-> NoCycle,
   outcome |-> IF s.threw THEN "threw" ELSE IF s.early THEN "early" ELSE "committed"]

\* renderCustom once the loop r has stopped
afterLoop(s, cyc, r, currentExec) ==
  IF r.pc = "fetch"
  THEN [s |-> [s EXCEPT !.fm = r.fm], cyc |-> [cyc EXCEPT !.i = r.i, !.pc = "fetch"],
        outcome |-> "suspended"]
  ELSE IF r.pc = "tail"
  THEN ended(reconcile([s EXCEPT !.fm = r.fm], cyc.zoom, currentExec))
  ELSE [s |-> [s EXCEPT !.fm = r.fm], cyc |-> NoCycle, outcome |-> r.pc]

proceed(s, cyc, i, counter, currentExec) ==
  afterLoop(s, cyc, fetchLoop(s.fm, cyc.features, i, counter, currentExec), currentExec)

\* what a committed cycle worked from: zoom, featuresMap and the leaves of
\* its own cluster features
Inputs(s, zoom) ==
  [zoom |-> zoom, features |-> s.fm,
   leaves |-> {s.cl[i] : i \in {j \in 1..Len(s.cl) : s.cl[j].key \in MapKeys(s.fm)}}]

NoInputs == [zoom |-> -1, features |-> <<>>, leaves |-> {}]

\* the assignment of the layer record back to the fields
Store(s) ==
  /\ markersOnScreen' = s.mos
  /\ dom' = s.dom
  /\ pinMarker' = s.pin
  /\ selectedFeatureId' = s.selF
  /\ selectedClusterId' = s.selC
  /\ opts' = [opts EXCEPT !.initialFeature = s.init]
  /\ featuresMap' = s.fm
  /\ clusterLeaves' = s.cl
  /\ reported' = s.errors
  /\ dispatched' = s.events
  /\ fitBoundsCalls' = <<>>
  /\ removed' = s.removed
  /\ UNCHANGED options

Op(name, outcome) == [op |-> name, outcome |-> outcome]

\* the call g of renderCustom has run up to r: its fields, where it is
\* suspended, and the history
settle(name, g, zoom, r) ==
  /\ Store(r.s)
  /\ cycles' = [cycles EXCEPT ![g] = r.cyc]
  /\ lastOp' = Op(name, r.outcome)
  /\ lastCommit' = IF r.outcome = "committed" THEN Inputs(r.s, zoom) ELSE lastCommit

\* renderCustom(currentExec) as called by the two event handlers
renderCustom(name, w, isSourceLoaded) ==
  LET exec == abortExec + 1
  IN /\ abortExec' = exec
     /\ IF ~shouldRender(isSourceLoaded, exec, exec)
        THEN /\ lastOp' = Op(name, "idle")
             /\ reported' = 0
             /\ dispatched' = <<>>
             /\ fitBoundsCalls' = <<>>
             /\ removed' = {}
             /\ UNCHANGED options
             /\ UNCHANGED <<opts, clusterLeaves, featuresMap, markersOnScreen, pinMarker,
                            selectedClusterId, selectedFeatureId, cycles, dom, lastCommit>>
        ELSE settle(name, exec, w.zoom,
                    proceed([Layer EXCEPT !.fm = <<>>, !.cl = <<>>],
                            [zoom |-> w.zoom, features |-> w.features, i |-> 1,
                             pc |-> "fetch"],
                            1, exec, exec))

(***************************************************************************)
(* Initial state: the layer as the constructor leaves it                   *)
(***************************************************************************)
InitWith(choices) ==
  /\ map = FALSE
  /\ source = FALSE
  /\ listening = FALSE
  /\ options \in choices
  /\ opts = constructorOpts(options)
  /\ clusterLeaves = <<>>
  /\ featuresMap = <<>>
  /\ markersOnScreen = [x \in {} |-> NoMarker]
  /\ pinMarker = NoMarker
  /\ selectedClusterId = NullId
  /\ selectedFeatureId = NullId
  /\ abortExec = 0
  /\ cycles = [g \in Gens |-> NoCycle]
  /\ dom = <<>>
  /\ lastOp = Op("constructor", "done")
  /\ reported = 0
  /\ dispatched = <<>>
  /\ fitBoundsCalls = <<>>
  /\ removed = {}
  /\ ticking = FALSE
  /\ frameRequests = 0
  /\ updates = <<>>
  /\ handlers = 0
  /\ lastCommit = NoInputs

Init == InitWith(OptionChoices)

(***************************************************************************)
(* Operations                                                              *)
(***************************************************************************)
\* onAdd; setSource throws when the source is missing or not a GeoJSON one
\* an onAdd that registers the handlers before it looks the source up
onAdd_ListensFirst(sourceKind) ==
  /\ ~map
  /\ map' = TRUE
  /\ source' = (sourceKind = "geojson")
  /\ listening' = TRUE
  /\ lastOp' = Op("onAdd", IF sourceKind = "geojson" THEN "done" ELSE "threw")
  /\ reported' = 0
  /\ dispatched' = <<>>
  /\ fitBoundsCalls' = <<>>
  /\ removed' = {}
  /\ UNCHANGED options
  /\ UNCHANGED <<opts, clusterLeaves, featuresMap, markersOnScreen, pinMarker,
                 selectedClusterId, selectedFeatureId, abortExec, cycles, dom, lastCommit>>
  /\ UNCHANGED tickVars

onAdd(sourceKind) ==
  /\ ~map
  /\ map' = TRUE
  /\ source' = (sourceKind = "geojson")
  /\ listening' = (sourceKind = "geojson")
  /\ lastOp' = Op("onAdd", IF sourceKind = "geojson" THEN "done" ELSE "threw")
  /\ reported' = 0
  /\ dispatched' = <<>>
  /\ fitBoundsCalls' = <<>>
  /\ removed' = {}
  /\ UNCHANGED options
  /\ UNCHANGED <<opts, clusterLeaves, featuresMap, markersOnScreen, pinMarker,
                 selectedClusterId, selectedFeatureId, abortExec, cycles, dom, lastCommit>>
  /\ UNCHANGED tickVars

\* onRemove
onRemove ==
  /\ map
  /\ listening' = FALSE
  /\ LET d == SelectSeq(dom, LAMBDA e : \A id \in DOMAIN markersOnScreen :
                                            markersOnScreen[id] # e)
         s == resetPinMarker([Layer EXCEPT !.dom = d])
     IN /\ dom' = s.dom
        /\ pinMarker' = s.pin
        /\ lastOp' = Op("onRemove", "done")
        /\ reported' = 0
        /\ dispatched' = <<>>
        /\ fitBoundsCalls' = <<>>
        /\ removed' = DOMAIN markersOnScreen
        /\ UNCHANGED options
  /\ UNCHANGED <<map, source, opts, clusterLeaves, featuresMap, markersOnScreen,
                 selectedClusterId, selectedFeatureId, abortExec, cycles, lastCommit>>
  /\ UNCHANGED tickVars

\* onMoveEnd
onMoveEnd(w, isSourceLoaded) ==
  /\ listening
  /\ abortExec < MaxExec
  /\ renderCustom("onMoveEnd", w, isSourceLoaded)
  /\ UNCHANGED <<map, source, listening>>
  /\ UNCHANGED tickVars

\* an onSourceData that also starts a cycle on metadata events
onSourceData_CountsMetadata(w, ev) ==
  /\ listening
  /\ abortExec < MaxExec
  /\ IF ev.isSourceLoaded /\ ev.sameSource
     THEN renderCustom("onSourceData", w, TRUE)
     ELSE /\ lastOp' = Op("onSourceData", "ignored")
          /\ reported' = 0
          /\ dispatched' = <<>>
          /\ fitBoundsCalls' = <<>>
          /\ removed' = {}
          /\ UNCHANGED options
          /\ UNCHANGED <<opts, clusterLeaves, featuresMap, markersOnScreen, pinMarker,
                         selectedClusterId, selectedFeatureId, abortExec, cycles, dom,
                         lastCommit>>
  /\ UNCHANGED <<map, source, listening>>
  /\ UNCHANGED tickVars

\* onSourceData
onSourceData(w, ev) ==
  /\ listening
  /\ abortExec < MaxExec
  /\ IF ev.isSourceLoaded /\ ev.sameSource /\ ev.sourceDataType # "metadata"
     THEN renderCustom("onSourceData", w, TRUE)
     ELSE /\ lastOp' = Op("onSourceData", "ignored")
          /\ reported' = 0
          /\ dispatched' = <<>>
          /\ fitBoundsCalls' = <<>>
          /\ removed' = {}
          /\ UNCHANGED options
          /\ UNCHANGED <<opts, clusterLeaves, featuresMap, markersOnScreen, pinMarker,
                         selectedClusterId, selectedFeatureId, abortExec, cycles, dom,
                         lastCommit>>
  /\ UNCHANGED <<map, source, listening>>
  /\ UNCHANGED tickVars

SourceDataEvents ==
  [isSourceLoaded : BOOLEAN, sameSource : BOOLEAN, sourceDataType : {"content", "metadata"}]

\* the checks after the await without "if (!success) return"
returnsAfterAwait_IgnoresFailure(success, counter, currentExec) ==
  aborted(counter, currentExec)

\* the two checks that follow "await this.loadClusterLeaves(id, feature)":
\* TRUE when renderCustom returns there
returnsAfterAwait(success, counter, currentExec) ==
  aborted(counter, currentExec) \/ ~success

\* a loadClusterLeaves that returns true without storing the leaves
loadClusterLeaves_Forgets(cl, id, leaves) == cl

\* loadClusterLeaves after getClusterLeaves resolved with leaves
loadClusterLeaves(cl, id, leaves) == MapSet(cl, id, leaves)

\* the cluster feature whose leaves the suspended call g waits for
AwaitedFeature(g) == cycles[g].features[cycles[g].i]

Awaited(g) == getFeatureId(AwaitedFeature(g))

\* The promise of getClusterLeaves resolves.  loadClusterLeaves stores the
\* leaves and returns true, and renderCustom continues after its await up to
\* the next await or its end; the two continuations run in one turn of the
\* microtask queue, which no event handler or caller can enter.
leavesResolved(g, leaves) ==
  /\ cycles[g].pc = "fetch"
  /\ LET s == [Layer EXCEPT !.cl = loadClusterLeaves(@, Awaited(g), leaves)]
     IN IF returnsAfterAwait(TRUE, abortExec, g)
        THEN /\ Store(s)
             /\ cycles' = [cycles EXCEPT ![g] = NoCycle]
             /\ lastOp' = Op("leavesResolved", "aborted")
             /\ lastCommit' = lastCommit
        ELSE settle("leavesResolved", g, cycles[g].zoom,
                    proceed(s, cycles[g], cycles[g].i + 1, abortExec, g))
  /\ UNCHANGED <<map, source, listening, abortExec>>
  /\ UNCHANGED tickVars

\* The promise of getClusterLeaves rejects.  loadClusterLeaves warns and
\* returns false, and renderCustom returns at one of the two checks that
\* follow its await.
leavesRejected(g) ==
  /\ cycles[g].pc = "fetch"
  /\ IF returnsAfterAwait(FALSE, abortExec, g)
     THEN /\ cycles' = [cycles EXCEPT ![g] = NoCycle]
          /\ lastOp' = Op("leavesRejected",
                          IF aborted(abortExec, g) THEN "aborted" ELSE "failed")
          /\ reported' = 0
          /\ dispatched' = <<>>
          /\ fitBoundsCalls' = <<>>
          /\ removed' = {}
          /\ UNCHANGED options
          /\ UNCHANGED <<opts, clusterLeaves, featuresMap, markersOnScreen, pinMarker,
                         selectedClusterId, selectedFeatureId, dom, lastCommit>>
     ELSE settle("leavesRejected", g, cycles[g].zoom,
                 proceed(Layer, cycles[g], cycles[g].i + 1, abortExec, g))
  /\ UNCHANGED <<map, source, listening, abortExec>>
  /\ UNCHANGED tickVars

\* the public method resetSelectedFeature
ResetSelectedFeature ==
  /\ LET s == resetSelectedFeature(Layer)
     IN /\ Store(s)
        /\ lastOp' = Op("resetSelectedFeature", "done")
  /\ UNCHANGED <<map, source, listening, abortExec, cycles, lastCommit>>
  /\ UNCHANGED tickVars

\* the public method setSelectedFeature
SetSelectedFeature(feature) ==
  /\ LET s == setSelectedFeature(Layer, feature)
     IN /\ Store(s)
        /\ lastOp' = Op("setSelectedFeature", IF s.threw THEN "threw" ELSE "done")
  /\ UNCHANGED <<map, source, listening, abortExec, cycles, lastCommit>>
  /\ UNCHANGED tickVars

\* the features whose element (a plain marker, or a child of an unfolded
\* cluster) is attached to the map and can be clicked
Clickable ==
  {dom[i].items[j] : <<i, j>> \in
     {p \in (1..Len(dom)) \X (1..3) :
        /\ dom[p[1]].kind \in {"marker", "unfolded"}
        /\ p[2] <= Len(dom[p[1]].items)}}

\* a click on a plain marker or on a leaf of an unfolded cluster
ClickFeature(feature) ==
  /\ feature \in Clickable
  /\ LET s == featureClickHandler(Layer, feature)
     IN /\ Store(s)
        /\ lastOp' = Op("featureClickHandler",
                         IF s.threw THEN "threw"
                         ELSE IF selectedFeatureId = getFeatureId(feature) THEN "ignored"
                         ELSE "dispatched")
  /\ UNCHANGED <<map, source, listening, abortExec, cycles, lastCommit>>
  /\ UNCHANGED tickVars

\* the ids of the collapsed cluster elements attached to the map: each holds
\* the click listener renderCluster gave it
ClickableClusters == {dom[i].id : i \in {j \in 1..Len(dom) : dom[j].kind = "cluster"}}

\* fitBoundsToClusterLeaves: the call of map.fitBounds, with the leaves the
\* bounding box is taken of and the options it is handed
fitBoundsToClusterLeaves(features) == <<[leaves |-> features, options |-> opts.fitBoundsOptions]>>

\* a click on a collapsed cluster element: the listener of renderCluster
ClickCluster(id) ==
  /\ id \in ClickableClusters
  /\ IF ~MapHas(clusterLeaves, id)
     THEN fitBoundsCalls' = <<>> /\ lastOp' = Op("clusterClick", "ignored")
     ELSE IF ~map
     THEN fitBoundsCalls' = <<>> /\ lastOp' = Op("clusterClick", "threw")
     ELSE /\ fitBoundsCalls' = fitBoundsToClusterLeaves(MapGet(clusterLeaves, id))
          /\ lastOp' = Op("clusterClick", "fitted")
  /\ reported' = 0
  /\ dispatched' = <<>>
  /\ removed' = {}
  /\ UNCHANGED <<options, opts, map, source, listening, clusterLeaves, featuresMap,
                 markersOnScreen, pinMarker, selectedClusterId, selectedFeatureId,
                 abortExec, cycles, dom, lastCommit>>
  /\ UNCHANGED tickVars

\* fit-bounds options handed to setBoundsOptions by the application
BoundsInputs == {FitBoundsOptions(Absent, 100), FitBoundsOptions(57, Absent)}

\* a setBoundsOptions that merges the options into the ones the layer holds
setBoundsOptions_Merges(o) ==
  /\ opts' = [opts EXCEPT !.fitBoundsOptions = mergeObject(@, o)]
  /\ lastOp' = Op("setBoundsOptions", "done")
  /\ reported' = 0
  /\ dispatched' = <<>>
  /\ fitBoundsCalls' = <<>>
  /\ removed' = {}
  /\ UNCHANGED <<options, map, source, listening, clusterLeaves, featuresMap,
                 markersOnScreen, pinMarker, selectedClusterId, selectedFeatureId,
                 abortExec, cycles, dom, lastCommit>>
  /\ UNCHANGED tickVars

\* the public method setBoundsOptions
setBoundsOptions(o) ==
  /\ opts' = [opts EXCEPT !.fitBoundsOptions = o]
  /\ lastOp' = Op("setBoundsOptions", "done")
  /\ reported' = 0
  /\ dispatched' = <<>>
  /\ fitBoundsCalls' = <<>>
  /\ removed' = {}
  /\ UNCHANGED <<options, map, source, listening, clusterLeaves, featuresMap,
                 markersOnScreen, pinMarker, selectedClusterId, selectedFeatureId,
                 abortExec, cycles, dom, lastCommit>>
  /\ UNCHANGED tickVars

Next ==
  \/ \E k \in {"geojson", "missing", "notgeojson"} : onAdd(k)
  \/ onRemove
  \/ \E w \in Worlds, l \in BOOLEAN : onMoveEnd(w, l)
  \/ \E w \in Worlds, ev \in SourceDataEvents : onSourceData(w, ev)
  \/ \E g \in Gens : /\ cycles[g].pc = "fetch"
                       /\ \E l \in LeavesIn(Worlds, AwaitedFeature(g)) : leavesResolved(g, l)
  \/ \E g \in Gens : leavesRejected(g)
  \/ ResetSelectedFeature
  \/ \E f \in SelectInputs : SetSelectedFeature(f)
  \/ \E f \in {FA, FB, FC, FD} : ClickFeature(f)
  \/ \E id \in {"1", "2"} : ClickCluster(id)
  \/ \E o \in BoundsInputs : setBoundsOptions(o)

Spec == Init /\ [][Next]_vars

(***************************************************************************)
(* The choice of a cluster's representation over a range of zooms, leaf    *)
(* counts and options: the layer is added to a map that shows one cluster. *)
(***************************************************************************)
Leaf(k) == PointFeature(Num(100 + k), k)

RepZooms == {5, 10, 17}

RepCounts == {2, 3, 7, 8}

RepWorlds ==
  { World(z, <<K1(n)>>, <<[key |-> "1", value |-> [k \in 1..n |-> Leaf(k)]]>>) :
      z \in RepZooms, n \in RepCounts }

RepOptionChoices ==
  { [NoOptions EXCEPT !.clusterMinZoom = z, !.unfoldedClusterMaxLeaves = n] :
      z \in {Absent, 6}, n \in {2, Absent} }

InitRep == InitWith(RepOptionChoices)

NextRep ==
  \/ onAdd("geojson")
  \/ \E w \in RepWorlds : onMoveEnd(w, TRUE)
  \/ \E g \in Gens : /\ cycles[g].pc = "fetch"
                       /\ \E l \in LeavesIn(RepWorlds, AwaitedFeature(g)) : leavesResolved(g, l)

SpecRep == InitRep /\ [][NextRep]_vars

(***************************************************************************)
(* Cycles over query results that hold a feature several times (the tiles  *)
(* of the source overlap) and features that are not Points.                *)
(***************************************************************************)
DupWorlds ==
  { World(1, <<FA, K1(2), FA, K1(2)>>, <<[key |-> "1", value |-> <<FB, FC>>]>>),
    World(1, <<FD, FD, FD>>, <<>>),
    World(2, <<K2(2), FP, FA, K2(2)>>, <<[key |-> "2", value |-> <<FC, FD>>]>>),
    World(0, <<FA, FB, FP, FB>>, <<>>) }

NextDup ==
  \/ onAdd("geojson")
  \/ \E w \in DupWorlds : onMoveEnd(w, TRUE)
  \/ \E w \in DupWorlds, ev \in SourceDataEvents : onSourceData(w, ev)
  \/ \E g \in Gens : /\ cycles[g].pc = "fetch"
                       /\ \E l \in LeavesIn(DupWorlds, AwaitedFeature(g)) : leavesResolved(g, l)
  \/ \E g \in Gens : leavesRejected(g)
  \/ \E f \in {FA, FC} : SetSelectedFeature(f)

SpecDup == Init /\ [][NextDup]_vars

(***************************************************************************)
(* Queries that hold a plain feature without an identifier: no metadata    *)
(* and no properties.id.                                                   *)
(***************************************************************************)
\* a Point feature whose properties hold neither metadata nor id
FN == PointFeature(Undef, 7)

NoIdWorlds ==
  { World(2, <<FA, FN, FB>>, <<>>),
    World(1, <<FN, K1(2)>>, <<[key |-> "1", value |-> <<FA, FB>>]>>),
    World(1, <<K1(2), FC, FN>>, <<[key |-> "1", value |-> <<FA, FB>>]>>),
    World(2, <<FA, FB>>, <<>>) }

NextNoId ==
  \/ onAdd("geojson")
  \/ \E w \in NoIdWorlds : onMoveEnd(w, TRUE)
  \/ \E w \in NoIdWorlds, ev \in SourceDataEvents : onSourceData(w, ev)
  \/ \E g \in Gens : /\ cycles[g].pc = "fetch"
                       /\ \E l \in LeavesIn(NoIdWorlds, AwaitedFeature(g)) : leavesResolved(g, l)
  \/ \E g \in Gens : leavesRejected(g)
  \/ \E f \in {FA, FC} : SetSelectedFeature(f)

SpecNoId == Init /\ [][NextNoId]_vars

(***************************************************************************)
(* Queries in which the engine id of a cluster and the properties.id of a  *)
(* plain feature give the same string "1".                                 *)
(***************************************************************************)
\* a plain feature whose properties.id is the number 1
F1 == PointFeature(Num(1), 4)

ClashWorlds ==
  { World(0, <<K1(3)>>, <<[key |-> "1", value |-> <<FA, FB, FC>>]>>),
    World(0, <<F1, FD>>, <<>>),
    World(2, <<K1(3), FD>>, <<[key |-> "1", value |-> <<FA, FB, FC>>]>>),
    World(2, <<F1>>, <<>>) }

NextClash ==
  \/ onAdd("geojson")
  \/ \E w \in ClashWorlds : onMoveEnd(w, TRUE)
  \/ \E w \in ClashWorlds, ev \in SourceDataEvents : onSourceData(w, ev)
  \/ \E g \in Gens : /\ cycles[g].pc = "fetch"
                       /\ \E l \in LeavesIn(ClashWorlds, AwaitedFeature(g)) : leavesResolved(g, l)
  \/ \E g \in Gens : leavesRejected(g)
  \/ \E f \in {FA, F1} : SetSelectedFeature(f)

SpecClash == Init /\ [][NextClash]_vars

(***************************************************************************)
(* Source data that changes between two cycles at the same zoom: cluster 1 *)
(* holds three leaves, then two.                                           *)
(***************************************************************************)
ChangeWorlds ==
  { World(0, <<K1(3)>>, <<[key |-> "1", value |-> <<FA, FB, FC>>]>>),
    World(0, <<K1(2)>>, <<[key |-> "1", value |-> <<FA, FB>>]>>),
    World(2, <<K1(3), FD>>, <<[key |-> "1", value |-> <<FA, FB, FC>>]>>),
    World(2, <<K1(2), FC>>, <<[key |-> "1", value |-> <<FA, FB>>]>>) }

NextChange ==
  \/ onAdd("geojson")
  \/ \E w \in ChangeWorlds : onMoveEnd(w, TRUE)
  \/ \E w \in ChangeWorlds, ev \in SourceDataEvents : onSourceData(w, ev)
  \/ \E g \in Gens : /\ cycles[g].pc = "fetch"
                       /\ \E l \in LeavesIn(ChangeWorlds, AwaitedFeature(g)) : leavesResolved(g, l)
  \/ \E g \in Gens : leavesRejected(g)
  \/ \E f \in {FA, FC} : SetSelectedFeature(f)

SpecChange == Init /\ [][NextChange]_vars

(***************************************************************************)
(* The layer built with an initialFeature that is not a Point.             *)
(***************************************************************************)
PolygonOptionChoices ==
  { [NoOptions EXCEPT !.clusterMinZoom = 1, !.clusterMaxZoom = 2,
                      !.unfoldedClusterMaxLeaves = 2, !.initialFeature = FP] }

InitPolygon == InitWith(PolygonOptionChoices)

SpecPolygon == InitPolygon /\ [][Next]_vars

(***************************************************************************)
(* A layer built with a Point initialFeature: b is shown by every answer   *)
(* of the map, d is a plain feature in some, a leaf of cluster 2 in one    *)
(* and absent from the others.                                             *)
(***************************************************************************)
InitialOptionChoices ==
  { [NoOptions EXCEPT !.clusterMinZoom = 1, !.clusterMaxZoom = 2,
                      !.unfoldedClusterMaxLeaves = 2, !.initialFeature = f] :
      f \in {FB, FD} }

InitInitial == InitWith(InitialOptionChoices)

SpecInitial == InitInitial /\ [][Next]_vars

(***************************************************************************)
(* Cycles whose source is loaded and whose leaf fetches all succeed: the   *)
(* promise of getClusterLeaves resolves, and the continuation of the       *)
(* awaiting renderCustom is run by the microtask queue.                    *)
(***************************************************************************)
NextLoaded ==
  \/ onAdd("geojson")
  \/ onRemove
  \/ \E w \in Worlds : onMoveEnd(w, TRUE)
  \/ \E w \in Worlds, ev \in SourceDataEvents : onSourceData(w, ev)
  \/ \E g \in Gens : /\ cycles[g].pc = "fetch"
                       /\ \E l \in LeavesIn(Worlds, AwaitedFeature(g)) : leavesResolved(g, l)
  \/ ResetSelectedFeature
  \/ \E f \in SelectInputs : SetSelectedFeature(f)
  \/ \E f \in {FA, FB, FC, FD} : ClickFeature(f)

\* where the call g of renderCustom can be once the fetch it awaits is
\* answered: at its end, or suspended at a later cluster feature
resumed(g) ==
  {NoCycle} \cup {[cycles[g] EXCEPT !.i = j] : j \in (cycles[g].i + 1)..Len(cycles[g].features)}

\* the suspended call g leaves its await
leavesAnswered(g) ==
  /\ cycles[g].pc = "fetch"
  /\ \E c \in resumed(g) : cycles' = [cycles EXCEPT ![g] = c]

\* every pending fetch is answered, and the awaiting call is resumed
FetchesResolve == \A g \in Gens : WF_cycles(leavesAnswered(g))

SpecLoaded == Init /\ [][NextLoaded]_vars /\ FetchesResolve

SpecPolygonLoaded == InitPolygon /\ [][NextLoaded]_vars /\ FetchesResolve

(***************************************************************************)
(* The constructor over a range of options: a layer is built with each     *)
(* options object in turn.                                                 *)
(***************************************************************************)
UserOptions ==
  [clusterMaxZoom : {Absent, 22},
   clusterMinZoom : {Absent, 0, 2},
   clusterRender : {NoCallback, "userClusterRender"},
   fitBoundsOptions : {NoObject} \cup [defined : {TRUE}, padding : {Absent, 57},
                                                         duration : {Absent, 100}],
   initialFeature : {NoFeature, FB},
   markerRender : {NoCallback, "userMarkerRender"},
   markerSize : {Absent, 28},
   unfoldedClusterRender : {NoCallback, "userUnfoldedClusterRender"},
   unfoldedClusterMaxLeaves : {Absent, 8},
   pinMarkerRender : {NoCallback, "userPinMarkerRender"}]

\* the constructor is entered with the options; this.opts is not assigned
\* yet, and every key of it is undefined
InitOpts ==
  /\ options \in UserOptions
  /\ opts = NoOptions
  /\ map = FALSE
  /\ source = FALSE
  /\ listening = FALSE
  /\ clusterLeaves = <<>>
  /\ featuresMap = <<>>
  /\ markersOnScreen = [x \in {} |-> NoMarker]
  /\ pinMarker = NoMarker
  /\ selectedClusterId = NullId
  /\ selectedFeatureId = NullId
  /\ abortExec = 0
  /\ cycles = [g \in Gens |-> NoCycle]
  /\ dom = <<>>
  /\ lastOp = Op("new", "entered")
  /\ reported = 0
  /\ dispatched = <<>>
  /\ fitBoundsCalls = <<>>
  /\ removed = {}
  /\ ticking = FALSE
  /\ frameRequests = 0
  /\ updates = <<>>
  /\ handlers = 0
  /\ lastCommit = NoInputs

\* the body of the constructor
constructor ==
  /\ lastOp = Op("new", "entered")
  /\ opts' = constructorOpts(options)
  /\ lastOp' = Op("constructor", "done")
  /\ reported' = 0
  /\ dispatched' = <<>>
  /\ fitBoundsCalls' = <<>>
  /\ removed' = {}
  /\ UNCHANGED <<options, map, source, listening, clusterLeaves, featuresMap,
                 markersOnScreen, pinMarker, selectedClusterId, selectedFeatureId,
                 abortExec, cycles, dom, lastCommit>>
  /\ UNCHANGED tickVars

NextOpts == constructor

SpecOpts == InitOpts /\ [][NextOpts]_vars

(***************************************************************************)
(* getFeatureId over a range of features: the layer is built with the      *)
(* feature as initialFeature, and the two implementations are applied to   *)
(* it.                                                                     *)
(***************************************************************************)
RawIds == {Undef, Num(0), Num(7), Num(123), Str(""), Str("a")}

Metadatas ==
  {NoMetadata, BadJson} \cup {JsonMetadata(m) : m \in RawIds}
    \cup {ObjMetadata(m) : m \in RawIds}

IdFeatures ==
  [cluster : BOOLEAN, id : RawIds, pid : RawIds, metadata : Metadatas,
   geom : {"Point"}, coord : {0}, point_count : {0}]

IdOptionChoices ==
  { [NoOptions EXCEPT !.initialFeature = f] : f \in IdFeatures }

InitId == InitWith(IdOptionChoices)

\* this.getFeatureId(this.opts.initialFeature)
callGetFeatureId ==
  /\ lastOp' = Op("getFeatureId", getFeatureId(opts.initialFeature))
  /\ reported' = 0
  /\ dispatched' = <<>>
  /\ fitBoundsCalls' = <<>>
  /\ removed' = {}
  /\ UNCHANGED options
  /\ UNCHANGED <<map, source, listening, opts, clusterLeaves, featuresMap,
                 markersOnScreen, pinMarker, selectedClusterId, selectedFeatureId,
                 abortExec, cycles, dom, lastCommit>>
  /\ UNCHANGED tickVars

\* getFeatureId of utils/get-feature-id.ts on the same feature; its catch
\* block calls console.error
callUtilsGetFeatureId ==
  /\ lastOp' = Op("utils.getFeatureId", utilsGetFeatureId(opts.initialFeature))
  /\ reported' = IF utilsThrows(opts.initialFeature) THEN 1 ELSE 0
  /\ dispatched' = <<>>
  /\ fitBoundsCalls' = <<>>
  /\ removed' = {}
  /\ UNCHANGED options
  /\ UNCHANGED <<map, source, listening, opts, clusterLeaves, featuresMap,
                 markersOnScreen, pinMarker, selectedClusterId, selectedFeatureId,
                 abortExec, cycles, dom, lastCommit>>
  /\ UNCHANGED tickVars

NextId ==
  \/ callGetFeatureId
  \/ callUtilsGetFeatureId

SpecId == InitId /\ [][NextId]_vars

(***************************************************************************)
(* The animation-frame scheduler (the class of lines 581-996 and            *)
(* uncluster.ts): render requests an animation frame unless ticking is set, *)
(* the frame runs updateMarkers, which awaits the leaves of each cluster    *)
(* feature and clears ticking with its last statement.  This specification  *)
(* follows the scheduler and the leaves cache; of the code between the last *)
(* await and "this.ticking = false" it follows only whether it ends or      *)
(* throws.                                                                  *)
(***************************************************************************)
\* render without the test of this.ticking
render_Unguarded(s) ==
  [ticking |-> TRUE, frameRequests |-> s.frameRequests + 1]

\* render
render(s) ==
  [ticking |-> TRUE,
   frameRequests |-> IF ~s.ticking THEN s.frameRequests + 1 ELSE s.frameRequests]

\* k calls of render in a row: one per registered handler
RECURSIVE renderTimes(_, _)
renderTimes(s, k) == IF k = 0 THEN s ELSE renderTimes(render(s), k - 1)

Scheduler == [ticking |-> ticking, frameRequests |-> frameRequests]

\* the scheduler record back to the fields; outcome tells whether the
\* trigger requested a frame
Triggered(name, s) ==
  /\ ticking' = s.ticking
  /\ frameRequests' = s.frameRequests
  /\ lastOp' = Op(name, IF s.frameRequests > frameRequests THEN "scheduled"
                        ELSE IF ticking THEN "coalesced" ELSE "ignored")
  /\ reported' = 0
  /\ dispatched' = <<>>
  /\ fitBoundsCalls' = <<>>
  /\ removed' = {}
  /\ UNCHANGED options

\* what the scheduler neither reads nor writes
notScheduled ==
  <<map, source, listening, opts, featuresMap, markersOnScreen, pinMarker,
    selectedClusterId, selectedFeatureId, abortExec, cycles, dom, lastCommit>>

\* the callback of map.on('data') that the constructor registers: for a
\* loaded event of the layer's source it registers a move and a moveend
\* handler and, unless the event is a metadata one, calls render.  Handlers
\* registered by a metadata event never call render and are not counted.
onData(ev) ==
  /\ frameRequests + Len(updates) < MaxRequests
  /\ IF ~ev.sameSource \/ ~ev.isSourceLoaded
     THEN handlers' = handlers /\ Triggered("data", Scheduler)
     ELSE IF ev.sourceDataType = "metadata"
     THEN handlers' = handlers /\ Triggered("data", Scheduler)
     ELSE /\ handlers < MaxHandlers
          /\ handlers' = handlers + 1
          /\ Triggered("data", render(Scheduler))
  /\ UNCHANGED <<updates, clusterLeaves>>
  /\ UNCHANGED notScheduled

\* a move or moveend event of the map: every registered handler calls render
onMove(name) ==
  /\ handlers > 0
  /\ frameRequests + Len(updates) < MaxRequests
  /\ Triggered(name, renderTimes(Scheduler, handlers))
  /\ UNCHANGED <<updates, clusterLeaves, handlers>>
  /\ UNCHANGED notScheduled

\* the position of the first cluster feature at or after i: the next await
\* of updateMarkers (0 when the loop runs to its end)
nextAwait(features, i) ==
  IF \E j \in i..Len(features) : features[j].cluster
  THEN CHOOSE j \in i..Len(features) :
         /\ features[j].cluster
         /\ \A k \in i..(j - 1) : ~features[k].cluster
  ELSE 0

\* updateMarkers after its loop: it ends with "this.ticking = false" (ok) or
\* an exception leaves it before
afterAwaits(ok) ==
  /\ ticking' = IF ok THEN FALSE ELSE ticking
  /\ lastOp' = Op("updateMarkers", IF ok THEN "completed" ELSE "threw")

\* the animation frame: updateMarkers starts, clears the cache and runs to
\* its first await or to its end
animationFrame(w, ok) ==
  /\ frameRequests > 0
  /\ frameRequests' = frameRequests - 1
  /\ clusterLeaves' = <<>>
  /\ IF nextAwait(w.features, 1) > 0
     THEN /\ updates' = Append(updates, [features |-> w.features,
                                          i |-> nextAwait(w.features, 1)])
          /\ ticking' = ticking
          /\ lastOp' = Op("updateMarkers", "suspended")
     ELSE /\ updates' = updates
          /\ afterAwaits(ok)
  /\ reported' = 0
  /\ dispatched' = <<>>
  /\ fitBoundsCalls' = <<>>
  /\ removed' = {}
  /\ UNCHANGED options
  /\ UNCHANGED handlers
  /\ UNCHANGED notScheduled

\* updates without its k-th call
dropUpdate(k) == SubSeq(updates, 1, k - 1) \o SubSeq(updates, k + 1, Len(updates))

\* getClusterLeaves resolves for the k-th call of updateMarkers in flight
getClusterLeavesResolved(k, leaves, ok) ==
  /\ k \in 1..Len(updates)
  /\ clusterLeaves' = MapSet(clusterLeaves,
                             getFeatureId(updates[k].features[updates[k].i]), leaves)
  /\ IF nextAwait(updates[k].features, updates[k].i + 1) > 0
     THEN /\ updates' = [updates EXCEPT ![k].i = nextAwait(updates[k].features,
                                                            updates[k].i + 1)]
          /\ ticking' = ticking
          /\ lastOp' = Op("updateMarkers", "suspended")
     ELSE /\ updates' = dropUpdate(k)
          /\ afterAwaits(ok)
  /\ reported' = 0
  /\ dispatched' = <<>>
  /\ fitBoundsCalls' = <<>>
  /\ removed' = {}
  /\ UNCHANGED options
  /\ UNCHANGED <<frameRequests, handlers>>
  /\ UNCHANGED notScheduled

\* getClusterLeaves rejects: the await throws and updateMarkers ends before
\* "this.ticking = false"
getClusterLeavesRejected(k) ==
  /\ k \in 1..Len(updates)
  /\ updates' = dropUpdate(k)
  /\ lastOp' = Op("updateMarkers", "threw")
  /\ reported' = 0
  /\ dispatched' = <<>>
  /\ fitBoundsCalls' = <<>>
  /\ removed' = {}
  /\ UNCHANGED options
  /\ UNCHANGED <<ticking, frameRequests, handlers, clusterLeaves>>
  /\ UNCHANGED notScheduled

NextTick ==
  \/ \E ev \in SourceDataEvents : onData(ev)
  \/ \E name \in {"move", "moveend"} : onMove(name)
  \/ \E w \in Worlds, ok \in BOOLEAN : animationFrame(w, ok)
  \/ \E k \in 1..MaxRequests, ok \in BOOLEAN :
       /\ k \in 1..Len(updates)
       /\ \E l \in LeavesIn(Worlds, updates[k].features[updates[k].i]) :
            getClusterLeavesResolved(k, l, ok)
  \/ \E k \in 1..MaxRequests : getClusterLeavesRejected(k)

SpecTick == Init /\ [][NextTick]_vars

\* the browser runs a requested animation frame
frameRuns ==
  /\ frameRequests > 0
  /\ frameRequests' = frameRequests - 1

\* the promise of getClusterLeaves that the k-th call of updateMarkers in
\* flight awaits is settled: the call goes on to its next await or ends
leavesSettled(k) ==
  /\ k \in 1..Len(updates)
  /\ \/ updates' = dropUpdate(k)
     \/ \E j \in (updates[k].i + 1)..Len(updates[k].features) :
          updates' = [updates EXCEPT ![k].i = j]

\* requested frames run and awaited promises settle
FramesAndFetchesProceed ==
  /\ WF_frameRequests(frameRuns)
  /\ \A k \in 1..MaxRequests : WF_updates(leavesSettled(k))

SpecTickFair == Init /\ [][NextTick]_vars /\ FramesAndFetchesProceed

TypeOK ==
  /\ abortExec \in 0..MaxExec
  /\ \A g \in Gens : cycles[g].pc \in {"none", "fetch"}

(***************************************************************************)
(* Properties                                                              *)
(***************************************************************************)
\* what is on screen and what is selected
Shown == <<markersOnScreen, dom, pinMarker, selectedFeatureId, selectedClusterId>>

\* a step taken by a call of renderCustom whose generation is superseded
StaleStep == \E g \in Gens : cycles[g].pc = "fetch" /\ g # abortExec /\ cycles'[g] # cycles[g]

\* C1: a cycle of renderCustom that is resumed from its leaf fetch after a
\* trigger advanced abortExec adds, removes or replaces no entry of
\* markersOnScreen, attaches no marker to the map, and changes neither
\* pinMarker nor selectedFeatureId nor selectedClusterId.
C1_StaleCycleChangesNothingShown == [][StaleStep => UNCHANGED Shown]_vars

\* a superseded cycle has been resumed with the leaves it waited for, while
\* markers are on screen
C1_Witness ==
  /\ lastOp = Op("leavesResolved", "aborted")
  /\ DOMAIN markersOnScreen # {}

\* C2: a committed cycle that works from the same zoom, the same features and
\* the same cluster leaves as the committed cycle before it keeps every
\* marker object: markersOnScreen is the same map of the same markers.
C2_RepeatedCycleKeepsMarkers ==
  [][(lastOp'.outcome = "committed" /\ lastCommit' = lastCommit)
       => markersOnScreen' = markersOnScreen]_vars

\* C3: at most one pin marker is attached to the map.
C3_AtMostOnePin == Cardinality(PinsIn(dom)) <= 1

\* C4: if pinMarker is non-null then selectedFeatureId is non-null.
C4_PinImpliesSelected == pinMarker # NoMarker => selectedFeatureId # NullId

\* a pin is tracked and attached for the selected feature
C4_Witness ==
  /\ pinMarker # NoMarker
  /\ selectedFeatureId # NullId
  /\ \E i \in PinsIn(dom) : dom[i] = pinMarker

\* C5: resetSelectedFeature() called after setSelectedFeature(f) leaves
\* selectedFeatureId null, selectedClusterId null, pinMarker null and no pin
\* attached to the map.
C5_ResetAfterSetClears ==
  [][(lastOp.op = "setSelectedFeature" /\ lastOp'.op = "resetSelectedFeature")
       => /\ selectedFeatureId' = NullId
          /\ selectedClusterId' = NullId
          /\ pinMarker' = NoMarker
          /\ PinsIn(dom') = {}]_vars

\* the cluster markers on screen that the cycle of generation abortExec built
NewClusterIds ==
  {id \in DOMAIN markersOnScreen :
     /\ markersOnScreen[id].kind \in {"cluster", "unfolded"}
     /\ markersOnScreen[id].gen = abortExec}

\* C6: when a feature is selected with a pin and a committed cycle builds
\* the marker of the cluster that holds it, then after the cycle exactly one
\* pin is attached, it comes after that cluster marker, and it stands at the
\* marker's coordinate, offset to the child when the marker is unfolded.
C6_PinFollowsRebuiltCluster ==
  [][(/\ pinMarker # NoMarker
      /\ selectedFeatureId # NullId
      /\ lastOp'.outcome = "committed")
       => \A id \in DOMAIN markersOnScreen' :
            LET m == markersOnScreen'[id]
            IN (/\ m.kind \in {"cluster", "unfolded"}
                /\ m.gen = abortExec'
                /\ isFeatureInCluster(clusterLeaves', id, selectedFeatureId))
               => /\ Cardinality(PinsIn(dom')) = 1
                  /\ \E i \in 1..Len(dom'), j \in PinsIn(dom') : dom'[i] = m /\ i < j
                  /\ pinMarker'.lngLat = m.lngLat
                  /\ pinMarker'.offset =
                       IF m.kind = "unfolded"
                       THEN calculatePinMarkerOffset(m, selectedFeatureId)
                       ELSE ZeroOffset]_vars

\* What C6 asks holds where no pin is left over by an initialFeature (C3)
\* and no superseded cycle has put the selected feature into the leaves of a
\* second cluster (C9).
C6_ApartFromC3AndC9 ==
  [][(/\ opts.initialFeature = NoFeature
      /\ Cardinality(PinsIn(dom)) <= 1
      /\ pinMarker # NoMarker
      /\ selectedFeatureId # NullId
      /\ lastOp'.outcome = "committed")
       => \A id \in DOMAIN markersOnScreen' :
            LET m == markersOnScreen'[id]
            IN (/\ m.kind \in {"cluster", "unfolded"}
                /\ m.gen = abortExec'
                /\ isFeatureInCluster(clusterLeaves', id, selectedFeatureId)
                /\ \A other \in MapKeys(clusterLeaves') \ {id} :
                     ~isFeatureInCluster(clusterLeaves', other, selectedFeatureId))
               => /\ Cardinality(PinsIn(dom')) = 1
                  /\ \E i \in 1..Len(dom'), j \in PinsIn(dom') : dom'[i] = m /\ i < j
                  /\ pinMarker'.lngLat = m.lngLat
                  /\ pinMarker'.offset =
                       IF m.kind = "unfolded"
                       THEN calculatePinMarkerOffset(m, selectedFeatureId)
                       ELSE ZeroOffset]_vars

\* C7: a cluster marker built by a committed cycle is unfolded exactly when
\* zoom >= clusterMinZoom and (its leaf count <= unfoldedClusterMaxLeaves or
\* zoom >= clusterMaxZoom), and collapsed otherwise.
C7_RepresentationRule ==
  lastOp.outcome = "committed" =>
    \A id \in NewClusterIds :
      LET unfold == /\ lastCommit.zoom >= opts.clusterMinZoom
                    /\ \/ Len(MapGet(clusterLeaves, id)) <= opts.unfoldedClusterMaxLeaves
                       \/ lastCommit.zoom >= opts.clusterMaxZoom
      IN markersOnScreen[id].kind = IF unfold THEN "unfolded" ELSE "cluster"

\* zoom 10, clusterMinZoom 0, clusterMaxZoom 17, 3 leaves and limit 7: the
\* new marker is unfolded
C7_Witness ==
  /\ lastOp.outcome = "committed"
  /\ lastCommit.zoom = 10
  /\ opts.clusterMinZoom = 0 /\ opts.clusterMaxZoom = 17
  /\ opts.unfoldedClusterMaxLeaves = 7
  /\ "1" \in NewClusterIds
  /\ Len(MapGet(clusterLeaves, "1")) = 3
  /\ markersOnScreen["1"].kind = "unfolded"

\* C8: a cycle whose leaf fetch fails ends without a commit: neither the
\* step that starts or resumes a cycle up to a fetch, nor the step in which a
\* fetch fails, changes markersOnScreen, the markers on the map, pinMarker or
\* the selected ids.
C8_FailedCycleChangesNothingShown ==
  [][(lastOp'.op = "leavesRejected" \/ lastOp'.outcome = "suspended")
       => UNCHANGED Shown]_vars

\* the leaf fetch of the current cycle has failed while markers of an
\* earlier cycle are on screen
C8_Witness ==
  /\ lastOp = Op("leavesRejected", "failed")
  /\ DOMAIN markersOnScreen # {}
  /\ \A g \in Gens : cycles[g] = NoCycle

\* C9: a superseded cycle inserts no entry into clusterLeaves, and when a
\* cycle commits, clusterLeaves holds the leaves of exactly the cluster
\* features of that cycle.
C9_CacheOwnedByCurrentCycle ==
  /\ [][StaleStep => clusterLeaves' = clusterLeaves]_vars
  /\ [](lastOp.outcome = "committed"
          => MapKeys(clusterLeaves) =
               {featuresMap[i].key : i \in {j \in 1..Len(featuresMap) :
                                              featuresMap[j].value.cluster}})

\* C10: when setSelectedFeature(f) returns for a Point feature f,
\* selectedFeatureId is the id of f and exactly one pin is attached.
C10_SetSelectsAndPins ==
  [][\A f \in SelectInputs :
       (SetSelectedFeature(f) /\ lastOp'.outcome = "done")
         => /\ selectedFeatureId' = getFeatureId(f)
            /\ Cardinality(PinsIn(dom')) = 1]_vars

\* the id of f is neither a key of featuresMap nor the id of a cached leaf
Unknown(f) ==
  /\ \A i \in 1..Len(featuresMap) : featuresMap[i].key # getFeatureId(f)
  /\ \A i \in 1..Len(clusterLeaves) :
       \A j \in 1..Len(clusterLeaves[i].value) :
         getFeatureId(clusterLeaves[i].value[j]) # getFeatureId(f)

\* C11: on a layer added to a map, setSelectedFeature(f) for a Point f whose
\* id is neither among the current features nor among the cached leaves
\* leaves selectedFeatureId = id of f, no selected cluster, and on the map
\* one pin and no other: the new pin, at the coordinates of f.
C11_UnknownPointIsPinned ==
  [][\A f \in SelectInputs :
       (SetSelectedFeature(f) /\ map /\ f.geom = "Point" /\ Unknown(f))
         => /\ selectedFeatureId' = getFeatureId(f)
            /\ selectedClusterId' = NullId
            /\ pinMarker'.kind = "pin"
            /\ pinMarker'.lngLat = f.coord
            /\ PinsIn(dom') = {Len(dom')}
            /\ dom'[Len(dom')] = pinMarker']_vars

\* What C11 asks holds where every pin on the map is the tracked one, that
\* is where no initialFeature has left a pin behind (C3).
C11_ApartFromC3 ==
  [][\A f \in SelectInputs :
       (/\ SetSelectedFeature(f) /\ map /\ f.geom = "Point" /\ Unknown(f)
        /\ Cardinality(PinsIn(dom)) <= 1
        /\ \A i \in PinsIn(dom) : dom[i] = pinMarker)
         => /\ selectedFeatureId' = getFeatureId(f)
            /\ selectedClusterId' = NullId
            /\ pinMarker'.kind = "pin"
            /\ pinMarker'.lngLat = f.coord
            /\ PinsIn(dom') = {Len(dom')}
            /\ dom'[Len(dom')] = pinMarker']_vars

\* C12: setSelectedFeature(f) for a non-Point f whose id is neither among
\* the current features nor among the cached leaves reports one error,
\* attaches no pin, and leaves selectedFeatureId, selectedClusterId and
\* pinMarker as they were.
C12_UnknownNonPointIsRefused ==
  [][\A f \in SelectInputs :
       (SetSelectedFeature(f) /\ f.geom # "Point" /\ Unknown(f))
         => /\ reported' = 1
            /\ UNCHANGED <<selectedFeatureId, selectedClusterId, pinMarker, dom>>]_vars

\* an unknown non-Point feature has been refused while another feature is
\* selected with its pin
C12_Witness ==
  /\ lastOp = Op("setSelectedFeature", "done")
  /\ reported = 1
  /\ selectedFeatureId # NullId
  /\ \E i \in PinsIn(dom) : dom[i] = pinMarker

\* C13: getFeatureId yields, for a cluster feature with its engine-assigned
\* id, the string form of feature.id whatever properties id and metadata
\* are; for a non-cluster feature whose metadata is a JSON string with an
\* id, the string form of that id; for a non-cluster feature without
\* metadata, the string form of the properties id.
C13_GetFeatureIdRule ==
  lastOp.op \in {"getFeatureId", "utils.getFeatureId"} =>
    LET f == opts.initialFeature
    IN /\ (f.cluster /\ Truthy(f.id)) => lastOp.outcome = toString(f.id)
       /\ (~f.cluster /\ f.metadata.t = "json" /\ f.metadata.mid.t # "undefined")
            => lastOp.outcome = toString(f.metadata.mid)
       /\ (~f.cluster /\ f.metadata.t = "undefined" /\ f.pid.t # "undefined")
            => lastOp.outcome = toString(f.pid)

\* What C13 asks holds of the method of the class (and of utils/index.ts).
C13_ClassMethod ==
  lastOp.op = "getFeatureId" =>
    LET f == opts.initialFeature
    IN /\ (f.cluster /\ Truthy(f.id)) => lastOp.outcome = toString(f.id)
       /\ (~f.cluster /\ f.metadata.t = "json" /\ f.metadata.mid.t # "undefined")
            => lastOp.outcome = toString(f.metadata.mid)
       /\ (~f.cluster /\ f.metadata.t = "undefined" /\ f.pid.t # "undefined")
            => lastOp.outcome = toString(f.pid)

\* What C13 asks holds of utils/get-feature-id.ts where the ids are truthy
\* (neither 0 nor the empty string).
C13_UtilsOnTruthyIds ==
  lastOp.op = "utils.getFeatureId" =>
    LET f == opts.initialFeature
    IN /\ (f.cluster /\ Truthy(f.id)) => lastOp.outcome = toString(f.id)
       /\ (~f.cluster /\ f.metadata.t = "json" /\ Truthy(f.metadata.mid))
            => lastOp.outcome = toString(f.metadata.mid)
       /\ (~f.cluster /\ f.metadata.t = "undefined" /\ Truthy(f.pid))
            => lastOp.outcome = toString(f.pid)

\* C14: for a non-cluster feature getFeatureId does not throw, and when its
\* metadata string cannot be parsed it yields the properties id if there is
\* one, otherwise the feature's own id if there is one, otherwise "unknown".
C14_GetFeatureIdNeverThrows ==
  lastOp.op \in {"getFeatureId", "utils.getFeatureId"} =>
    LET f == opts.initialFeature
    IN ~f.cluster =>
         /\ lastOp.outcome # Thrown
         /\ f.metadata.t = "badjson" =>
              lastOp.outcome = IF f.pid.t # "undefined" THEN toString(f.pid)
                               ELSE IF f.id.t # "undefined" THEN toString(f.id)
                               ELSE "unknown"

\* the fields of the layer and the elements on the map
LayerState ==
  <<map, source, listening, opts, clusterLeaves, featuresMap, markersOnScreen,
    pinMarker, selectedClusterId, selectedFeatureId, abortExec, cycles, dom>>

\* C15: a click on a plain marker or on a leaf of an unfolded cluster whose
\* feature is not the selected one makes it the selected feature and
\* dispatches one 'feature-click' event that carries it; a click on the
\* selected feature dispatches nothing and changes no state.
C15_ClickSelectsAndDispatches ==
  [][\A f \in {FA, FB, FC, FD} :
       ClickFeature(f) =>
         IF selectedFeatureId = getFeatureId(f)
         THEN dispatched' = <<>> /\ UNCHANGED LayerState
         ELSE selectedFeatureId' = getFeatureId(f) /\ dispatched' = <<f>>]_vars

\* What C15 asks holds where no superseded cycle has put the clicked feature
\* into the cached leaves of a second cluster (C9).
C15_ApartFromC9 ==
  [][\A f \in {FA, FB, FC, FD} :
       (/\ ClickFeature(f)
        /\ Cardinality({id \in MapKeys(clusterLeaves) :
                          isFeatureInCluster(clusterLeaves, id, getFeatureId(f))}) <= 1)
         => IF selectedFeatureId = getFeatureId(f)
            THEN dispatched' = <<>> /\ UNCHANGED LayerState
            ELSE selectedFeatureId' = getFeatureId(f) /\ dispatched' = <<f>>]_vars

\* a click has selected the leaf of an unfolded cluster, with its pin
C15_Witness ==
  /\ lastOp = Op("featureClickHandler", "dispatched")
  /\ Len(dispatched) = 1
  /\ selectedFeatureId = getFeatureId(dispatched[1])
  /\ selectedClusterId # NullId
  /\ pinMarker # NoMarker

\* a trigger of the animation-frame scheduler: a data, move or moveend event
TriggerStep == lastOp'.op \in {"data", "move", "moveend"}

\* C16: in the animation-frame scheduler at most one update is requested or
\* in flight at any time, and a trigger that arrives while ticking is set
\* requests no further one.
C16_OneUpdateAtATime ==
  /\ [](frameRequests + Len(updates) <= 1)
  /\ [][(TriggerStep /\ ticking) => UNCHANGED <<frameRequests, updates>>]_vars

\* a move event with two handlers registered has arrived while an update
\* was in flight
C16_Witness ==
  /\ lastOp = Op("move", "coalesced")
  /\ handlers = 2
  /\ Len(updates) = 1
  /\ frameRequests = 0

\* C17 (as stated): a layer built without options holds the defaults, and
\* every option handed to the constructor is held as it was handed while
\* every other option holds its default.
C17_SuppliedOptionReplacesDefault ==
  [][constructor =>
       /\ options = NoOptions =>
             /\ opts'.clusterMaxZoom = 17 /\ opts'.clusterMinZoom = 0
             /\ opts'.markerSize = 24 /\ opts'.unfoldedClusterMaxLeaves = 7
             /\ opts'.fitBoundsOptions = FitBoundsOptions(20, Absent)
             /\ opts'.initialFeature = NoFeature
             /\ opts'.clusterRender = "clusterRenderDefault"
             /\ opts'.markerRender = "markerRenderDefault"
             /\ opts'.unfoldedClusterRender = "unfoldedClusterRenderSmart"
             /\ opts'.pinMarkerRender = "pinMarkerRenderDefault"
       /\ \A key \in DOMAIN options :
             opts'[key] = IF options[key] = NoOptions[key] THEN defaultOptions[key]
                          ELSE options[key]]_vars

\* C17 (amended): a layer built without options holds the defaults; every
\* option handed to the constructor other than fitBoundsOptions is held as
\* it was handed, every option not handed holds its default, and of a
\* fitBoundsOptions handed to it the layer holds each key that object
\* defines and, for each key it does not define, the default's.
C17_SuppliedOptionMergesOverDefault ==
  [][constructor =>
       /\ options = NoOptions =>
             /\ opts'.clusterMaxZoom = 17 /\ opts'.clusterMinZoom = 0
             /\ opts'.markerSize = 24 /\ opts'.unfoldedClusterMaxLeaves = 7
             /\ opts'.fitBoundsOptions = FitBoundsOptions(20, Absent)
             /\ opts'.initialFeature = NoFeature
             /\ opts'.clusterRender = "clusterRenderDefault"
             /\ opts'.markerRender = "markerRenderDefault"
             /\ opts'.unfoldedClusterRender = "unfoldedClusterRenderSmart"
             /\ opts'.pinMarkerRender = "pinMarkerRenderDefault"
       /\ \A key \in (DOMAIN options) \ {"fitBoundsOptions"} :
             opts'[key] = IF options[key] = NoOptions[key] THEN defaultOptions[key]
                          ELSE options[key]
       /\ opts'.fitBoundsOptions.defined
       /\ opts'.fitBoundsOptions.padding =
             IF options.fitBoundsOptions.padding = Absent THEN 20
             ELSE options.fitBoundsOptions.padding
       /\ opts'.fitBoundsOptions.duration = options.fitBoundsOptions.duration]_vars

\* a layer built with a fitBoundsOptions that defines no padding, next to
\* other options of its own
C17_Witness ==
  /\ lastOp = Op("constructor", "done")
  /\ options.fitBoundsOptions = FitBoundsOptions(Absent, 100)
  /\ opts.fitBoundsOptions = FitBoundsOptions(20, 100)
  /\ opts.clusterMaxZoom = 22 /\ opts.markerSize = 24
  /\ opts.clusterRender = "userClusterRender"
  /\ opts.initialFeature = FB

\* the state setBoundsOptions is to leave alone
C18_Frame ==
  <<markersOnScreen, clusterLeaves, featuresMap, selectedFeatureId, selectedClusterId,
    pinMarker, dom, abortExec, cycles, map, source, listening>>

C19_NoSourceNoCycle ==
  /\ [][\A k \in {"missing", "notgeojson"} :
          onAdd(k) => lastOp' = Op("onAdd", "threw") /\ ~listening' /\ ~source']_vars
  /\ []((map /\ ~source) =>
          /\ ~listening
          /\ abortExec = 0
          /\ \A g \in Gens : cycles[g] = NoCycle
          /\ DOMAIN markersOnScreen = {}
          /\ clusterLeaves = <<>> /\ featuresMap = <<>>
          /\ lastCommit = NoInputs
          /\ \A i \in 1..Len(dom) : dom[i].kind = "pin")

\* after an onAdd that threw, the application selected a feature and the
\* layer was removed
C19_Witness ==
  /\ map /\ ~source
  /\ selectedFeatureId # NullId
  /\ lastOp = Op("onRemove", "done")

\* the representation the rule yields at a zoom for a number of leaves
RuleAt(zoom, leafCount) ==
  IF /\ zoom >= opts.clusterMinZoom
     /\ \/ leafCount <= opts.unfoldedClusterMaxLeaves
        \/ zoom >= opts.clusterMaxZoom
  THEN "unfolded" ELSE "cluster"

ClusterKinds == {"cluster", "unfolded"}

\* C20: every cluster marker in markersOnScreen has the representation the
\* rule yields for the zoom and the leaf count of the last committed cycle;
\* and in the step of a committed cycle, a cluster marker whose tag
\* disagrees with the cycle's decision for its id has remove() called on it,
\* is no longer attached, and a marker built by this cycle stands in
\* markersOnScreen in its place, while every marker of markersOnScreen that
\* this cycle did not build is the marker that was there before, unchanged.
C20_MarkersFollowRule ==
  /\ [](\A id \in DOMAIN markersOnScreen :
          markersOnScreen[id].kind \in ClusterKinds =>
            \E e \in lastCommit.leaves :
              /\ e.key = id
              /\ markersOnScreen[id].kind = RuleAt(lastCommit.zoom, Len(e.value)))
  /\ [][lastOp'.outcome = "committed" =>
          /\ \A id \in (DOMAIN markersOnScreen) \cap MapKeys(clusterLeaves') :
                LET old == markersOnScreen[id]
                IN (/\ old.kind \in ClusterKinds
                    /\ id \in DOMAIN markersOnScreen'
                    /\ old.kind # RuleAt(lastCommit'.zoom, Len(MapGet(clusterLeaves', id))))
                   => /\ id \in removed'
                      /\ \A i \in 1..Len(dom') : dom'[i] # old
                      /\ markersOnScreen'[id].gen = abortExec'
                      /\ markersOnScreen'[id] # old
                      /\ \E i \in 1..Len(dom') : dom'[i] = markersOnScreen'[id]
          /\ \A id \in DOMAIN markersOnScreen' :
                markersOnScreen'[id].gen # abortExec'
                  => /\ id \in DOMAIN markersOnScreen
                     /\ markersOnScreen'[id] = markersOnScreen[id]
                     /\ id \notin removed']_vars

\* a committed cycle at the maximum zoom has torn down the marker of
\* cluster 1, which was collapsed (an unfolded one is kept there), and built
\* the unfolded one
C20_Witness ==
  /\ lastOp.outcome = "committed"
  /\ lastCommit.zoom >= opts.clusterMaxZoom
  /\ "1" \in removed
  /\ "1" \in DOMAIN markersOnScreen
  /\ markersOnScreen["1"].kind = "unfolded"
  /\ markersOnScreen["1"].gen = abortExec

\* the marker elements other than pins that are attached to the map
AttachedMarkers == {dom[i] : i \in {j \in 1..Len(dom) : dom[j].kind # "pin"}}

\* the markers markersOnScreen holds
TrackedMarkers == {markersOnScreen[id] : id \in DOMAIN markersOnScreen}

\* the ways a call of renderCustom ends without an exception
CycleEnds == {"committed", "aborted", "failed", "early", "idle"}

\* C21: while the layer is added to the map, whenever a cycle has ended
\* (committed, superseded, with a failed fetch, or early), the markers other
\* than pins that are attached to the map are exactly the markers that
\* markersOnScreen holds.
C21_AttachedEqualsTracked ==
  (listening /\ lastOp.outcome \in CycleEnds) => AttachedMarkers = TrackedMarkers

\* the ids of the Point features among the results of a query
PointIds(features) ==
  {getFeatureId(features[i]) : i \in {j \in 1..Len(features) : features[j].geom = "Point"}}

\* a cycle that queried these features has committed in this step
Committed(features) ==
  /\ lastOp'.outcome = "committed"
  /\ \/ \E w \in DupWorlds :
          /\ w.features = features
          /\ lastOp'.op \in {"onMoveEnd", "onSourceData"}
          /\ lastCommit'.zoom = w.zoom
          /\ \A i \in 1..Len(features) : ~features[i].cluster
     \/ /\ lastOp'.op \in {"leavesResolved", "leavesRejected"}
        /\ abortExec \in Gens
        /\ cycles[abortExec].pc = "fetch"
        /\ cycles[abortExec].features = features

\* C22: after a committed cycle markersOnScreen has an entry for exactly the
\* ids of the Point features the cycle queried, each entry is attached to the
\* map once and carries its id, and every marker that markersOnScreen held
\* before under an id that is no longer among them had remove() called on it
\* and is no longer attached.
C22_OneMarkerPerQueriedId ==
  [][\A w \in DupWorlds :
       Committed(w.features) =>
         /\ DOMAIN markersOnScreen' = PointIds(w.features)
         /\ \A id \in DOMAIN markersOnScreen' :
               /\ markersOnScreen'[id].id = id
               /\ Cardinality({i \in 1..Len(dom') : dom'[i] = markersOnScreen'[id]}) = 1
         /\ Cardinality(AttachedMarkers') = Cardinality(PointIds(w.features))
         /\ \A id \in (DOMAIN markersOnScreen) \ PointIds(w.features) :
               /\ id \in removed'
               /\ \A i \in 1..Len(dom') : dom'[i] # markersOnScreen[id]]_vars

\* a committed cycle whose query held the cluster 2 twice, the feature a
\* and a polygon has replaced the markers of another cycle
C22_Witness ==
  /\ lastOp.outcome = "committed"
  /\ lastCommit.zoom = 2
  /\ DOMAIN markersOnScreen = {"2", "a"}
  /\ removed # {}
  /\ Len(dom) = 2

\* the cycle of generation g is suspended in a fetch, is the latest one,
\* and works from the zoom and the query results of w
LatestAwaits(g, w) ==
  /\ abortExec = g
  /\ cycles[g].pc = "fetch"
  /\ cycles[g].zoom = w.zoom
  /\ cycles[g].features = w.features

\* the cycle of generation g has committed what it read from w and no later
\* cycle was triggered
CommittedFrom(g, w) ==
  /\ abortExec = g
  /\ cycles[g] = NoCycle
  /\ lastCommit.zoom = w.zoom
  /\ MapKeys(lastCommit.features) = PointIds(w.features)
  /\ DOMAIN markersOnScreen = PointIds(w.features)

\* C23: with the source loaded and every fetch answered, once the triggers
\* have stopped (the generation has reached its bound) the suspended cycle
\* of the last generation commits, after which markersOnScreen holds a
\* marker for exactly the ids of the features it queried, at the zoom it
\* read.
C23_LastCycleCommits ==
  \A w \in Worlds : LatestAwaits(MaxExec, w) ~> CommittedFrom(MaxExec, w)

\* the operations in which a call of renderCustom runs
CycleOps == {"onMoveEnd", "onSourceData", "leavesResolved", "leavesRejected"}

\* C24: when a call of renderCustom has gone through its reconciliation
\* (it committed, returned from the initialFeature tail, or threw there),
\* clusterLeaves holds a leaf list for every cluster feature in the
\* featuresMap it worked from, and for every cluster marker it built.
C24_LeavesCompleteAtReconcile ==
  (lastOp.op \in CycleOps /\ lastOp.outcome \in {"committed", "early", "threw"})
    => /\ \A k \in 1..Len(featuresMap) :
            featuresMap[k].value.cluster => MapHas(clusterLeaves, featuresMap[k].key)
       /\ \A i \in 1..Len(dom) :
            (dom[i].kind \in ClusterKinds /\ dom[i].gen = abortExec)
              => MapHas(clusterLeaves, dom[i].id)

\* a cycle with two cluster features has committed after both fetches
C24_Witness ==
  /\ lastOp = Op("leavesResolved", "committed")
  /\ {"1", "2"} \subseteq MapKeys(featuresMap)
  /\ {"1", "2"} \subseteq MapKeys(clusterLeaves)
  /\ {"1", "2"} \subseteq DOMAIN markersOnScreen

\* C25: abortExec never decreases; every moveend event increases it by
\* exactly one; a sourcedata event increases it by exactly one when it is
\* loaded, concerns the source of the layer and is not a metadata event, and
\* leaves it unchanged otherwise; no other operation changes it.
C25_GenerationCounts ==
  /\ [][abortExec' >= abortExec]_vars
  /\ [][lastOp'.op = "onMoveEnd" => abortExec' = abortExec + 1]_vars
  /\ [][lastOp'.op = "onSourceData" =>
          \A w \in Worlds, ev \in SourceDataEvents :
            onSourceData(w, ev) =>
              abortExec' = abortExec +
                (IF ev.isSourceLoaded /\ ev.sameSource /\ ev.sourceDataType # "metadata"
                 THEN 1 ELSE 0)]_vars
  /\ [][lastOp'.op \notin {"onMoveEnd", "onSourceData"} => abortExec' = abortExec]_vars

\* a sourcedata event was ignored while the cycle of generation 1 was
\* suspended, after a selection
C25_Witness ==
  /\ lastOp = Op("onSourceData", "ignored")
  /\ abortExec = 1
  /\ cycles[1].pc = "fetch"
  /\ selectedFeatureId # NullId

\* the id of f is no key of featuresMap and is the id of a Point leaf of a
\* cached cluster
LeafOnly(f) ==
  /\ ~MapHas(featuresMap, getFeatureId(f))
  /\ findClusterizedFeature(clusterLeaves, getFeatureId(f)).found
  /\ findClusterizedFeature(clusterLeaves, getFeatureId(f)).feature.geom = "Point"

\* the first cached cluster that holds f
ClusterOf(f) == findClusterizedFeature(clusterLeaves, getFeatureId(f)).clusterId

\* the pin stands at the marker m for the child id
PinnedAt(m, id) ==
  /\ pinMarker' # NoMarker
  /\ pinMarker'.lngLat = m.lngLat
  /\ pinMarker'.offset =
       IF m.kind = "unfolded" THEN calculatePinMarkerOffset(m, id) ELSE ZeroOffset

\* C26: setSelectedFeature with a feature that is no top-level feature and
\* is a leaf of a cached cluster sets selectedClusterId to that cluster's
\* id and anchors the pin at that cluster's marker of markersOnScreen: at the
\* marker's coordinate, with zero offset when the marker is collapsed and
\* offset to the child of the selected feature when it is unfolded.
C26_LeafSelectionPinsOnCluster ==
  [][\A f \in SelectInputs :
       (SetSelectedFeature(f) /\ LeafOnly(f))
         => /\ selectedFeatureId' = getFeatureId(f)
            /\ selectedClusterId' = ClusterOf(f)
            /\ ClusterOf(f) \in DOMAIN markersOnScreen
            /\ PinnedAt(markersOnScreen[ClusterOf(f)], getFeatureId(f))]_vars

\* What C26 asks holds when markersOnScreen has the marker of the cluster
\* and, if that marker is unfolded, the marker holds the child of the
\* selected feature: when clusterLeaves and markersOnScreen come from one
\* committed cycle.
C26_WhenMarkerMatchesCache ==
  [][\A f \in SelectInputs :
       (/\ SetSelectedFeature(f)
        /\ LeafOnly(f)
        /\ ClusterOf(f) \in DOMAIN markersOnScreen
        /\ markersOnScreen[ClusterOf(f)].kind = "unfolded"
              => getFeatureId(f) \in ChildIds(markersOnScreen[ClusterOf(f)]))
         => /\ selectedFeatureId' = getFeatureId(f)
            /\ selectedClusterId' = ClusterOf(f)
            /\ PinnedAt(markersOnScreen[ClusterOf(f)], getFeatureId(f))]_vars

\* the cluster markers of markersOnScreen whose cached leaves hold id
ClustersShowing(id) ==
  {c \in DOMAIN markersOnScreen :
     /\ markersOnScreen[c].kind \in ClusterKinds
     /\ isFeatureInCluster(clusterLeaves, c, id)}

\* id has a plain marker in markersOnScreen
ShownPlain(id) ==
  id \in DOMAIN markersOnScreen /\ markersOnScreen[id].kind = "marker"

\* C27: after every committed cycle in which the selected feature is
\* visible, a pin that exists stands at the coordinate of the feature's plain
\* marker, or at the coordinate of the cluster marker of markersOnScreen
\* whose cached leaves hold the feature.
C27_PinFollowsSelected ==
  (lastOp.outcome = "committed" /\ pinMarker # NoMarker /\ selectedFeatureId # NullId)
    => /\ ShownPlain(selectedFeatureId)
            => pinMarker.lngLat = markersOnScreen[selectedFeatureId].lngLat
       /\ \A c \in ClustersShowing(selectedFeatureId) :
            pinMarker.lngLat = markersOnScreen[c].lngLat

\* What C27 asks holds for the markers the committed cycle built itself (the
\* two pin branches run for new markers only), when one cluster only holds
\* the selected feature in its cached leaves.
C27_PinFollowsNewMarkers ==
  (lastOp.outcome = "committed" /\ pinMarker # NoMarker /\ selectedFeatureId # NullId)
    => /\ (ShownPlain(selectedFeatureId)
            /\ markersOnScreen[selectedFeatureId].gen = abortExec)
            => pinMarker.lngLat = markersOnScreen[selectedFeatureId].lngLat
       /\ \A c \in ClustersShowing(selectedFeatureId) :
            (markersOnScreen[c].gen = abortExec /\ ClustersShowing(selectedFeatureId) = {c})
              => pinMarker.lngLat = markersOnScreen[c].lngLat

\* a step in which the first cycle commits, for a layer built with a Point
\* initialFeature, nothing being selected before
FirstCommitUnselected ==
  /\ options.initialFeature # NoFeature
  /\ options.initialFeature.geom = "Point"
  /\ lastCommit = NoInputs
  /\ lastOp'.outcome = "committed"
  /\ selectedFeatureId = NullId
  /\ pinMarker = NoMarker

\* where the pin of the initial feature f belongs in a state: on the plain
\* marker of f, else on a cluster marker whose cached leaves hold f (which
\* selectedClusterId then names), else at the coordinates of f
InitialPinPlaced(f) ==
  IF ShownPlain(getFeatureId(f))
  THEN pinMarker.lngLat = markersOnScreen[getFeatureId(f)].lngLat
  ELSE IF ClustersShowing(getFeatureId(f)) # {}
  THEN /\ selectedClusterId \in ClustersShowing(getFeatureId(f))
       /\ pinMarker.lngLat = markersOnScreen[selectedClusterId].lngLat
  ELSE pinMarker.lngLat = f.coord

\* a step of a cycle or a call that starts one, the initial feature being
\* consumed and nothing being selected
CycleAfterConsumed ==
  /\ options.initialFeature # NoFeature
  /\ opts.initialFeature = NoFeature
  /\ selectedFeatureId = NullId
  /\ lastOp'.op \in CycleOps

\* C28: with a Point initialFeature configured and nothing selected, the
\* first committed cycle leaves selectedFeatureId the id of the initial
\* feature and exactly one pin (on its plain marker, on the cluster marker
\* that holds it, or at its own coordinates when nothing shows it) and
\* consumes the initial feature; once consumed it stays so and no later
\* cycle selects it again.
C28_InitialFeatureSelectedOnce ==
  [][/\ FirstCommitUnselected
          => /\ selectedFeatureId' = getFeatureId(options.initialFeature)
             /\ Cardinality(PinsIn(dom')) = 1
             /\ pinMarker' # NoMarker
             /\ InitialPinPlaced(options.initialFeature)'
             /\ opts'.initialFeature = NoFeature
     /\ CycleAfterConsumed
          => /\ selectedFeatureId' = NullId
             /\ pinMarker' = NoMarker
             /\ opts'.initialFeature = NoFeature]_vars

\* the only cycle started so far committed and pinned the initial feature
\* inside a cluster
C28_Witness ==
  /\ options.initialFeature = FB
  /\ abortExec = 1
  /\ lastOp.outcome = "committed"
  /\ selectedFeatureId = "b"
  /\ selectedClusterId # NullId
  /\ pinMarker # NoMarker
  /\ opts.initialFeature = NoFeature

\* the only cycle started so far committed and pinned the initial feature,
\* which no marker shows, at its own coordinates
C28_WitnessNotVisible ==
  /\ options.initialFeature = FD
  /\ abortExec = 1
  /\ lastOp.outcome = "committed"
  /\ selectedFeatureId = "d"
  /\ ~ShownPlain("d")
  /\ ClustersShowing("d") = {}
  /\ pinMarker # NoMarker
  /\ pinMarker.lngLat = FD.coord
  /\ opts.initialFeature = NoFeature

\* the only cycle started so far committed and pinned the initial feature
\* on its plain marker
C28_WitnessPlain ==
  /\ options.initialFeature = FD
  /\ abortExec = 1
  /\ lastOp.outcome = "committed"
  /\ selectedFeatureId = "d"
  /\ ShownPlain("d")
  /\ pinMarker # NoMarker
  /\ opts.initialFeature = NoFeature

\* a cycle committed after the initial feature was consumed and the
\* selection was reset
C28_WitnessLater ==
  /\ options.initialFeature = FB
  /\ opts.initialFeature = NoFeature
  /\ lastOp.outcome = "committed"
  /\ abortExec > 1
  /\ selectedFeatureId = NullId
  /\ pinMarker = NoMarker

\* the collapsed cluster markers that are on screen: attached to the map of
\* a layer that is added, and held by markersOnScreen
CollapsedOnScreen ==
  IF map
  THEN {id \in DOMAIN markersOnScreen :
          /\ markersOnScreen[id].kind = "cluster"
          /\ id \in ClickableClusters}
  ELSE {}

\* C29: a click on a collapsed cluster marker that is on screen requests one
\* viewport fit, to the leaves of that cluster and with the fit-bounds
\* options of the layer, whatever the cycles are doing: also while a later
\* cycle is suspended in a leaf fetch and after a cycle was superseded or
\* its fetch failed.
C29_ClusterClickFits ==
  [][\A id \in {"1", "2"} :
       (ClickCluster(id) /\ id \in CollapsedOnScreen)
         => /\ Len(fitBoundsCalls') = 1
            /\ Len(fitBoundsCalls'[1].leaves) = markersOnScreen[id].items[1].point_count
            /\ fitBoundsCalls'[1].options = opts.fitBoundsOptions]_vars

\* The click requests the fit whenever the cache holds an entry for the
\* cluster, and nothing otherwise.
C29_ClusterClickFitsCached ==
  [][\A id \in {"1", "2"} :
       (ClickCluster(id) /\ id \in CollapsedOnScreen)
         => IF MapHas(clusterLeaves, id)
            THEN fitBoundsCalls' = fitBoundsToClusterLeaves(MapGet(clusterLeaves, id))
            ELSE fitBoundsCalls' = <<>>]_vars

\* the places in the map container of the markers markersOnScreen holds
OnScreenPlaces ==
  {j \in 1..Len(dom) : \E id \in DOMAIN markersOnScreen : dom[j] = markersOnScreen[id]}

\* C30: after every committed cycle, a pin that is attached to the map was
\* attached after every marker of markersOnScreen: it comes last in the map
\* container and renders above all markers.
C30_PinAboveMarkers ==
  (lastOp.outcome = "committed" /\ pinMarker # NoMarker)
    => \A i \in PinsIn(dom) : \A j \in OnScreenPlaces : j < i

\* What the cycle does keep: a pin it re-rendered for the new marker of the
\* selected feature, or for a new cluster marker holding it, comes after
\* that marker.
C30_PinAboveOwnNewMarker ==
  (lastOp.outcome = "committed" /\ pinMarker # NoMarker)
    => \A j \in OnScreenPlaces :
         (/\ dom[j].gen = abortExec
          /\ \/ dom[j].id = selectedFeatureId
             \/ (dom[j].kind \in ClusterKinds /\ dom[j].id = selectedClusterId
                 /\ ClustersShowing(selectedFeatureId) = {dom[j].id}))
           => \E i \in PinsIn(dom) : dom[i] = pinMarker /\ j < i

\* a call of renderCustom went through its forEach
Reconciled == lastOp.op \in CycleOps /\ lastOp.outcome \in {"committed", "threw", "early"}

\* the queried features that are not Points
NonPointKeys ==
  {featuresMap[i].key : i \in {j \in 1..Len(featuresMap) : featuresMap[j].value.geom # "Point"}}

\* the queried features that are Points
PointKeys == MapKeys(featuresMap) \ NonPointKeys

Unidentified(features) ==
  {i \in 1..Len(features) : ~features[i].cluster /\ getFeatureId(features[i]) = Thrown}

\* the ids of the other features of a query
IdentifiedIds(features) ==
  {getFeatureId(features[i]) : i \in (1..Len(features)) \ Unidentified(features)}

\* how a call of renderCustom can go on without ending: it did not run, or
\* it is suspended in a leaf fetch
Running == {"idle", "suspended"}

\* C32: a cycle over a query that holds a non-cluster feature without a
\* resolvable identifier is not stopped by it: unless the cycle is
\* superseded or a leaf fetch fails, it commits, and the other features of
\* the query have their markers.
C32_UnidentifiedFeatureSkipped ==
  [][/\ \A w \in NoIdWorlds :
          (/\ onMoveEnd(w, TRUE)
           /\ Unidentified(w.features) # {}
           /\ lastOp'.outcome \notin Running)
            => /\ lastOp'.outcome = "committed"
               /\ IdentifiedIds(w.features) \subseteq DOMAIN markersOnScreen'
     /\ \A g \in Gens :
          (/\ cycles[g].pc = "fetch"
           /\ cycles'[g].pc # "fetch"
           /\ Unidentified(cycles[g].features) # {}
           /\ lastOp'.op = "leavesResolved"
           /\ lastOp'.outcome # "aborted")
            => /\ lastOp'.outcome = "committed"
               /\ IdentifiedIds(cycles[g].features) \subseteq DOMAIN markersOnScreen']_vars

\* the marker m shows the queried feature: a plain marker rendered from it,
\* or a cluster marker with its id
ShowsFeature(m, feature) ==
  IF feature.cluster
  THEN m.kind \in ClusterKinds /\ m.id = getFeatureId(feature)
  ELSE m.kind = "marker" /\ m.items = <<feature>>

\* C33: after every committed cycle, every queried non-cluster Point
\* feature has in markersOnScreen a plain marker built for it, and every
\* cluster feature a cluster marker, also when a cluster and a plain feature
\* of successive cycles have the same id string.
C33_MarkerKindFollowsFeature ==
  lastOp.outcome = "committed"
    => \A i \in 1..Len(featuresMap) :
         featuresMap[i].value.geom = "Point"
           => /\ featuresMap[i].key \in DOMAIN markersOnScreen
              /\ ShowsFeature(markersOnScreen[featuresMap[i].key], featuresMap[i].value)

\* the cluster ids that have a marker in markersOnScreen
ClusterMarkerIds ==
  {id \in DOMAIN markersOnScreen : markersOnScreen[id].kind \in ClusterKinds}

\* C34: in every state between two steps of the layer, where a click,
\* setSelectedFeature or another event can run, every cluster id of
\* clusterLeaves has a marker in markersOnScreen and every cluster marker of
\* markersOnScreen has its leaves in clusterLeaves.
C34_CacheDescribesScreen ==
  /\ MapKeys(clusterLeaves) \subseteq DOMAIN markersOnScreen
  /\ ClusterMarkerIds \subseteq MapKeys(clusterLeaves)

\* What holds in the state a committed cycle leaves: the cluster features
\* of the query have their leaves cached and their markers on screen.
C34_CacheDescribesScreenAtCommit ==
  lastOp.outcome = "committed"
    => /\ ClusterMarkerIds \subseteq MapKeys(clusterLeaves)
       /\ \A i \in 1..Len(featuresMap) :
            featuresMap[i].value.cluster
              => /\ featuresMap[i].key \in MapKeys(clusterLeaves)
                 /\ featuresMap[i].key \in ClusterMarkerIds

\* a step of a cycle of a layer whose initialFeature is still configured
\* while the caller's selection of another feature is in place
CycleOverCallerSelection ==
  /\ lastOp'.op \in CycleOps
  /\ opts.initialFeature # NoFeature
  /\ selectedFeatureId # NullId
  /\ selectedFeatureId # getFeatureId(opts.initialFeature)

\* C35: once the caller has selected a feature, with setSelectedFeature or
\* a click on a marker, no cycle makes selectedFeatureId the id of the
\* configured initialFeature, and none attaches a pin for it.
C35_InitialYieldsToSelection ==
  [][CycleOverCallerSelection
       => /\ selectedFeatureId' # getFeatureId(opts.initialFeature)
          /\ Cardinality(PinsIn(dom')) <= Cardinality(PinsIn(dom))
          /\ opts'.initialFeature = opts.initialFeature]_vars

\* What the tail of renderCustom alone keeps: a cycle in which no new
\* marker shows the initialFeature leaves the caller's selection alone.
C35_TailYieldsToSelection ==
  [][(/\ CycleOverCallerSelection
      /\ lastOp'.outcome = "committed"
      /\ opts'.initialFeature # NoFeature)
       => /\ selectedFeatureId' = selectedFeatureId
          /\ pinMarker' # NoMarker => pinMarker'.lngLat # opts.initialFeature.coord]_vars

\* the layer was removed from the map and not added again: onRemove has
\* unregistered the handlers (this.map stays set)
Removed == map /\ ~listening

\* C36: onRemove leaves no marker and no pin of the layer attached to the
\* map, and while the layer stays removed no cycle attaches one, also when
\* onRemove was called while a cycle was suspended in a leaf fetch.
C36_NothingAttachedAfterRemove ==
  [][/\ lastOp'.op = "onRemove" => dom' = <<>>
     /\ (Removed /\ lastOp'.op \in CycleOps) => dom' = <<>>]_vars

\* What onRemove does: it detaches the markers of markersOnScreen and
\* resets pinMarker.
C36_RemoveDetachesTracked ==
  [][lastOp'.op = "onRemove"
       => /\ pinMarker' = NoMarker
          /\ \A i \in 1..Len(dom') :
               \A id \in DOMAIN markersOnScreen : dom'[i] # markersOnScreen[id]]_vars

\* the cluster marker m shows what the cycle holds for its id: an unfolded
\* one a child per cached leaf, a collapsed one the rendering of the queried
\* cluster feature
UpToDate(m) ==
  IF m.kind = "unfolded"
  THEN MapHas(clusterLeaves, m.id) /\ m.items = MapGet(clusterLeaves, m.id)
  ELSE MapHas(featuresMap, m.id) /\ m.items = <<MapGet(featuresMap, m.id)>>

\* C37: after every committed cycle, each unfolded cluster marker of
\* markersOnScreen holds exactly one child per leaf cached for its id, and
\* each collapsed one was rendered from the properties of the queried
\* cluster feature, also when the marker was kept from an earlier cycle and
\* the source data changed in between.
C37_ClusterMarkersUpToDate ==
  lastOp.outcome = "committed"
    => \A id \in ClusterMarkerIds : UpToDate(markersOnScreen[id])

\* What holds for the cluster markers that the committing cycle built.
C37_NewClusterMarkersUpToDate ==
  lastOp.outcome = "committed"
    => \A id \in ClusterMarkerIds :
         markersOnScreen[id].gen = abortExec => UpToDate(markersOnScreen[id])

\* a move or moveend event has just called render
MoveTriggered == lastOp.op \in {"move", "moveend"}

\* an animation frame is requested and has not run yet: the call of
\* updateMarkers it stands for will start
FramePending == frameRequests > 0

\* C38: in the animation-frame scheduler, every move or moveend event is
\* eventually followed by a call of updateMarkers that starts after it (a
\* frame is pending at or after the event, and every pending frame runs),
\* also when the event arrives while an update is running and when a leaf
\* fetch of a running update rejects.
C38_TriggerLeadsToUpdate ==
  /\ MoveTriggered ~> FramePending
  /\ FramePending ~> ~FramePending

\* What the scheduler keeps: a requested frame is run, and an event that
\* finds ticking unset requests one.
C38_IdleTriggerLeadsToUpdate ==
  /\ (MoveTriggered /\ lastOp.outcome = "scheduled") ~> ~FramePending
  /\ FramePending ~> ~FramePending

\* the operations of the selection: the two public methods and the clicks
\* on markers
SelectionOps ==
  {"setSelectedFeature", "resetSelectedFeature", "featureClickHandler", "clusterClick"}

\* what reconciliation owns: the markers on screen, the queried features,
\* the leaves cache, the generation and the cycles in flight
Reconciliation == <<markersOnScreen, featuresMap, clusterLeaves, abortExec, cycles>>

\* C39: setSelectedFeature, resetSelectedFeature and the clicks on markers
\* add, remove or replace no entry of markersOnScreen, change neither
\* featuresMap nor clusterLeaves, and neither advance abortExec nor end or
\* move a cycle in flight.
C39_SelectionLeavesReconciliation ==
  [][lastOp'.op \in SelectionOps => UNCHANGED Reconciliation]_vars

\* a feature was selected while its marker is on screen, leaves are cached
\* and a cycle is suspended in a fetch
C39_Witness ==
  /\ lastOp = Op("setSelectedFeature", "done")
  /\ selectedFeatureId \in DOMAIN markersOnScreen
  /\ pinMarker # NoMarker
  /\ clusterLeaves # <<>>
  /\ \E g \in Gens : cycles[g].pc = "fetch"

====
